---- MODULE Spec2Model ----
(***************************************************************************)
(* A model of the Pyfectious discrete-event simulator: the event heap, the *)
(* main loop of Simulator.simulate, the five event kinds, the per-tick     *)
(* observer/command hooks, the contact-graph edge flags and the running    *)
(* statistics.  Time is in minutes, probabilities are in percent.          *)
(***************************************************************************)
EXTENDS Integers, Sequences, FiniteSets, TLC

VARIABLES
    pc,                 \* position in Simulator.simulate / the heap exerciser
    clock,              \* Simulator.clock, in minutes
    end_time,           \* Simulator.end_time, in minutes
    spread_period,      \* Simulator.spread_period, in minutes
    disease,            \* Simulator.disease_properties (degenerate distributions)
    events,             \* Simulator.events, the heapq array
    event,              \* the local `event` of the main loop (last popped)
    infection_status,   \* Person.infection_status, per person id
    is_alive,           \* Person.is_alive
    is_quarantined,     \* Person.is_quarantined
    times_of_infection, \* Person.times_of_infection
    current_location,   \* Person.current_location (a Place)
    transmission_ids,   \* Person.transmission_ids
    to_edges,           \* flags of the Connection_Edge objects made by add_to_connection_edge
    from_edges,         \* flags of the Connection_Edge objects made by add_from_connection_edge
    status,             \* Community.status, per community and sub-community index
    statistics,         \* Statistics.people_statistics_dict
    commands,           \* Simulator.commands
    observers,          \* Simulator.observers
    initialized_infected_ids, \* Simulator.initialized_infected_ids
    new_infected_ids,   \* the list built by the last spread_disease, before list(set(..))
    trace,              \* what ran in the current loop iteration, with the clock each step read
    drained,            \* keys popped since the last push (heap exerciser only)
    person_intervals,   \* the candidate list handed to resolve_intervals (resolver only)
    accepted_intervals, \* the list resolve_intervals returned (resolver only)
    infectious_rate_dict, \* Disease_Properties.infectious_rate_dict, by person id
    immunity_dict       \* Disease_Properties.immunity_dict, by person id

vars == <<pc, clock, end_time, spread_period, disease, events, event,
          infection_status, is_alive, is_quarantined, times_of_infection,
          current_location, transmission_ids, to_edges, from_edges, status,
          statistics, commands, observers, initialized_infected_ids,
          new_infected_ids, trace, drained, person_intervals, accepted_intervals,
          infectious_rate_dict, immunity_dict>>

\* the two sample caches of Disease_Properties
Cache == <<infectious_rate_dict, immunity_dict>>

----------------------------------------------------------------------------
(* Bounds of the model *)

NumPeople == 3          \* size of the generated population
MaxHeap == 4            \* heap exerciser: largest heap built
MaxMinute == 1          \* heap exerciser
MaxIntervals == 3       \* resolver: candidates of one person
MaxTime == 2            \* resolver: interval starts and ends are in 0 .. MaxTime: event minutes are 0..MaxMinute

People == 0 .. (NumPeople - 1)

----------------------------------------------------------------------------
(* Enumerations of utils.py *)

CLEAN == 0
INCUBATION_STATUS == 1
CONTAGIOUS == 2

INCUBATION == 1
INFECTION == 2
PLAN_DAY == 3
TRANSITION == 4
VIRUS_SPREAD == 5

Simulation_Event == {INCUBATION, INFECTION, PLAN_DAY, TRANSITION, VIRUS_SPREAD}

DayMinutes == 1440

----------------------------------------------------------------------------
(* Small helpers *)

Min(a, b) == IF a < b THEN a ELSE b

RECURSIVE SeqToSet(_)
SeqToSet(s) == IF s = <<>> THEN {} ELSE {Head(s)} \cup SeqToSet(Tail(s))

\* the elements of a finite set of integers as an ascending sequence
RECURSIVE SortedSeq(_)
SortedSeq(S) ==
    IF S = {} THEN <<>>
    ELSE LET m == CHOOSE x \in S : \A y \in S : x <= y
         IN <<m>> \o SortedSeq(S \ {m})

RECURSIVE Flatten(_)
Flatten(ss) == IF ss = <<>> THEN <<>> ELSE Head(ss) \o Flatten(Tail(ss))

\* Random.flip_coin: uniform [0,1) < probability
\* (a coin that can fail at probability 1)
flip_coin_below_one(probability) ==
    IF probability <= 0 THEN {FALSE} ELSE BOOLEAN
flip_coin(probability) ==
    IF probability <= 0 THEN {FALSE}
    ELSE IF probability >= 100 THEN {TRUE}
    ELSE BOOLEAN

----------------------------------------------------------------------------
(* Events and the heap *)

\* Event.__init__ : the priority is the value of the Simulation_Event member
Event(minute, event_type) ==
    [minute |-> minute, type |-> event_type, priority |-> event_type,
     person |-> -1, community |-> -1, subcommunity_type_index |-> -1,
     is_start |-> FALSE, ending_time_transmission |-> -1,
     death_probability |-> -1]

NoEvent == Event(-1, 0)

\* Event.__lt__
\* (a comparison that forgets the priority)
EventLtMinuteOnly(a, b) == a.minute < b.minute
EventLt(a, b) ==
    \/ a.minute < b.minute
    \/ (a.minute = b.minute /\ a.priority < b.priority)

\* heapq._siftdown, positions 0-based as in the library
RECURSIVE siftdown_loop(_, _, _, _)
siftdown_loop(heap, startpos, pos, newitem) ==
    IF pos > startpos
    THEN LET parentpos == (pos - 1) \div 2
             parent == heap[parentpos + 1]
         IN IF EventLt(newitem, parent)
            THEN siftdown_loop([heap EXCEPT ![pos + 1] = parent],
                               startpos, parentpos, newitem)
            ELSE [heap EXCEPT ![pos + 1] = newitem]
    ELSE [heap EXCEPT ![pos + 1] = newitem]

siftdown(heap, startpos, pos) == siftdown_loop(heap, startpos, pos, heap[pos + 1])

\* heapq._siftup
RECURSIVE siftup_loop(_, _, _, _)
siftup_loop(heap, startpos, pos, newitem) ==
    LET endpos == Len(heap)
        childpos == 2 * pos + 1
    IN IF childpos < endpos
       THEN LET rightpos == childpos + 1
                c == IF rightpos < endpos
                        /\ ~EventLt(heap[childpos + 1], heap[rightpos + 1])
                     THEN rightpos ELSE childpos
            IN siftup_loop([heap EXCEPT ![pos + 1] = heap[c + 1]],
                           startpos, c, newitem)
       ELSE siftdown([heap EXCEPT ![pos + 1] = newitem], startpos, pos)

siftup(heap, pos) == siftup_loop(heap, pos, pos, heap[pos + 1])

\* heapq.heappush(self.events, item)
heappush(heap, item) == siftdown(Append(heap, item), 0, Len(heap))

\* heapq.heappop(self.events): the item returned, and the heap left
heappop_item(heap) == heap[1]
\* (a pop that drops the root and does not restore the heap order)
heappop_rest_unsifted(heap) == Tail(heap)
heappop_rest(heap) ==
    LET lastelt == heap[Len(heap)]
        rest == SubSeq(heap, 1, Len(heap) - 1)
    IN IF rest = <<>> THEN <<>>
       ELSE siftup([rest EXCEPT ![1] = lastelt], 0)

RECURSIVE push_all(_, _)
push_all(heap, items) ==
    IF items = <<>> THEN heap
    ELSE LET pushed == heappush(heap, Head(items))
         IN IF Len(pushed) > 0 THEN push_all(pushed, Tail(items)) ELSE pushed

----------------------------------------------------------------------------
(* The generated population: one family holding everybody, community 0    *)
(* with two sub-communities, community 1 with one.  Connectivity is 1, so  *)
(* construct_graph makes every edge it may make.                           *)

\* Person.communities, in add_community order
person_communities(p) ==
    IF p = 0 THEN << <<0, 0>>, <<1, 0>> >>
    ELSE IF p = 1 THEN << <<0, 1>> >>
    ELSE <<>>

Communities == {0, 1}
SubCommunities(c) == IF c = 0 THEN {0, 1} ELSE {0}

\* Community.people_ids_dict[index]
people_ids_dict(c, index) ==
    {p \in People : \E k \in 1 .. Len(person_communities(p)) :
                        person_communities(p)[k] = <<c, index>>}

\* Community_Type_Role.priority of the role of a sub-community type
role_priority(c, index) == IF c = 0 THEN 1 ELSE 2

\* Community_Type_Role.presence_prob
presence_prob(c, index) == 100

\* the (start, length) pairs the role's time cycle distribution can sample
time_cycle_support(c, index) ==
    IF c = 0 /\ index = 0 THEN {<<0, 60>>, <<300, 0>>, <<300, 60>>}
    ELSE IF c = 0 /\ index = 1 THEN {<<0, 60>>, <<300, 60>>}
    ELSE {<<330, 60>>}

\* Person.health_condition
person_health_condition(p) == 50

\* Connection_Edge identity: who, to whom, and the place that registers it
FamilyEdge(i, j) ==
    [from_id |-> i, to_id |-> j, is_family |-> TRUE,
     community |-> -1, from_index |-> -1, to_index |-> -1]

CommunityEdge(c, i, index1, j, index2) ==
    [from_id |-> i, to_id |-> j, is_family |-> FALSE,
     community |-> c, from_index |-> index1, to_index |-> index2]

\* Family.construct_graph
FamilyEdges == {FamilyEdge(i, j) : i \in People, j \in People} \
               {FamilyEdge(i, i) : i \in People}

\* Community.construct_graph: intra- and inter-sub-community edges
CommunityEdges ==
    UNION {UNION {UNION {
        {CommunityEdge(c, i, index1, j, index2) :
            <<i, j>> \in {ij \in people_ids_dict(c, index1) \X people_ids_dict(c, index2) :
                             ij[1] # ij[2]}}
        : index2 \in SubCommunities(c)} : index1 \in SubCommunities(c)} : c \in Communities}

Edges == FamilyEdges \cup CommunityEdges

\* Connection_Edge.__init__
Connection_Edge ==
    [from_is_available |-> FALSE, to_is_available |-> FALSE,
     from_is_quarantined |-> FALSE, to_is_quarantined |-> FALSE]

\* Connection_Edge.transmission_potential
transmission_potential(e) == 100

\* Connection_Edge.is_active
\* (a test that looks at availability only)
is_active_ignoring_quarantine(flags) ==
    flags.from_is_available /\ flags.to_is_available
is_active(flags) ==
    flags.from_is_available /\ flags.to_is_available
    /\ ~flags.from_is_quarantined /\ ~flags.to_is_quarantined

\* creation order of the edges: families first, then communities
edge_rank(e) ==
    (IF e.is_family THEN 0 ELSE 1 + e.community) * 1000
    + e.from_id * 100 + e.to_id * 10 + (IF e.to_index < 0 THEN 0 ELSE e.to_index)

RECURSIVE edges_in_order(_)
edges_in_order(S) ==
    IF S = {} THEN <<>>
    ELSE LET m == CHOOSE x \in S : \A y \in S : edge_rank(x) <= edge_rank(y)
         IN <<m>> \o edges_in_order(S \ {m})

\* Person.to_connection_edges: objects of to_edges
person_to_connection_edges(p) == {e \in Edges : e.from_id = p}
\* Person.from_connection_edges: objects of from_edges
person_from_connection_edges(p) == {e \in Edges : e.to_id = p}

\* Family.get_all_to_edges / get_all_from_edges: objects of to_edges
family_get_all_to_edges(p) == {e \in Edges : e.is_family /\ e.from_id = p}
family_get_all_from_edges(p) == {e \in Edges : e.is_family /\ e.to_id = p}

\* Community.get_all_to_edges / get_all_from_edges: objects of to_edges
community_get_all_to_edges(c, p, index) ==
    {e \in Edges : ~e.is_family /\ e.community = c /\ e.from_id = p /\ e.from_index = index}
community_get_all_from_edges(c, p, index) ==
    {e \in Edges : ~e.is_family /\ e.community = c /\ e.to_id = p /\ e.to_index = index}

\* Place
Place(community, subcommunity_type_index, is_family) ==
    [community |-> community, subcommunity_type_index |-> subcommunity_type_index,
     is_family |-> is_family]

AtFamily == Place(-1, -1, TRUE)

NoPlace == Place(-1, -1, FALSE)

----------------------------------------------------------------------------
(* Statistics *)

\* Statistics.__init__
Statistics(population_size) ==
    [IS_INFECTED |-> 0, IS_NOT_INFECTED |-> population_size,
     HAS_BEEN_INFECTED |-> 0, HAS_NOT_BEEN_INFECTED |-> population_size,
     ALIVE |-> population_size, DEAD |-> 0, ALL |-> population_size]

\* Statistics.update_people_statistic with value = 1
\* (an update that moves one counter and leaves its partner alone)
update_people_statistic_unpaired(stat, health_condition) ==
    IF health_condition = "IS_INFECTED" THEN [stat EXCEPT !.IS_INFECTED = @ + 1]
    ELSE IF health_condition = "IS_NOT_INFECTED" THEN [stat EXCEPT !.IS_INFECTED = @ - 1]
    ELSE IF health_condition = "DEAD" THEN [stat EXCEPT !.DEAD = @ + 1]
    ELSE IF health_condition = "HAS_BEEN_INFECTED"
    THEN [stat EXCEPT !.HAS_BEEN_INFECTED = @ + 1]
    ELSE stat
update_people_statistic(stat, health_condition) ==
    IF health_condition = "IS_INFECTED"
    THEN [stat EXCEPT !.IS_INFECTED = @ + 1, !.IS_NOT_INFECTED = @ - 1]
    ELSE IF health_condition = "IS_NOT_INFECTED"
    THEN [stat EXCEPT !.IS_INFECTED = @ - 1, !.IS_NOT_INFECTED = @ + 1]
    ELSE IF health_condition = "DEAD"
    THEN [stat EXCEPT !.DEAD = @ + 1, !.ALIVE = @ - 1]
    ELSE IF health_condition = "HAS_BEEN_INFECTED"
    THEN [stat EXCEPT !.HAS_BEEN_INFECTED = @ + 1, !.HAS_NOT_BEEN_INFECTED = @ - 1]
    ELSE stat

----------------------------------------------------------------------------
(* Disease model: each distribution is degenerate, so a sample is its value *)

\* incubation_periods / disease_periods: what generate_incubation_period and
\* generate_disease_period can sample
DiseaseConfigs ==
    { [infectious_rate |-> 100, immunity |-> 0, death_probability |-> 100,
       incubation_periods |-> {0}, disease_periods |-> {900}],
      [infectious_rate |-> 50, immunity |-> 50, death_probability |-> 0,
       incubation_periods |-> {500}, disease_periods |-> {900}],
      [infectious_rate |-> 50, immunity |-> 0, death_probability |-> 100,
       incubation_periods |-> {0, 500}, disease_periods |-> {0}] }

\* Disease_Properties.standard_prob: 1 - (1 - p) ** (period / 720); 0 and 1 are
\* fixed points and every value strictly between stays strictly between (50)
standard_prob(probability, period) ==
    IF probability <= 0 THEN 0
    ELSE IF probability >= 100 THEN 100
    ELSE 50

\* the probability Virus_Spread_Event.is_disease_transmitted flips its coin with
infection_transmission_prob(e) ==
    LET rate == standard_prob(disease.infectious_rate, spread_period)
        immunity_effect == 100 - standard_prob(disease.immunity, spread_period)
    IN (rate * rate * immunity_effect * transmission_potential(e)) \div 1000000

----------------------------------------------------------------------------
(* Infection tracker *)

\* Incubation_Event built from Infection.__init__ at the given clock
\* (an end of transmission counted from the start of the incubation)
Incubation_Event_from_start(person, clk, incubation_period, disease_period) ==
    [Event(clk + incubation_period, INCUBATION) EXCEPT
        !.person = person,
        !.ending_time_transmission = clk + disease_period,
        !.death_probability = disease.death_probability]
Incubation_Event(person, clk, incubation_period, disease_period) ==
    LET starting_time_incubation == clk
        ending_time_incubation == starting_time_incubation + incubation_period
    IN [Event(ending_time_incubation, INCUBATION) EXCEPT
            !.person = person,
            !.ending_time_transmission = ending_time_incubation + disease_period,
            !.death_probability = disease.death_probability]

\* Infection.start_infections: st carries the fields it changes,
\* samples[k] is the (incubation, disease) period pair sampled for ids[k]
\* (a routine that counts HAS_BEEN_INFECTED at every infection of a person)
RECURSIVE start_infections_counting_again(_, _, _, _)
start_infections_counting_again(ids, samples, clk, st) ==
    IF ids = <<>> THEN st
    ELSE LET person_id == Head(ids)
             stat1 == update_people_statistic(st.statistics, "IS_INFECTED")
             stat2 == update_people_statistic(stat1, "HAS_BEEN_INFECTED")
             incubation_event ==
                 Incubation_Event(person_id, clk, Head(samples)[1], Head(samples)[2])
         IN start_infections_counting_again(Tail(ids), Tail(samples), clk,
                [infection_status |->
                     [st.infection_status EXCEPT ![person_id] = INCUBATION_STATUS],
                 statistics |-> stat2,
                 times_of_infection |->
                     [st.times_of_infection EXCEPT ![person_id] = @ + 1],
                 events |-> heappush(st.events, incubation_event)])
RECURSIVE start_infections(_, _, _, _)
start_infections(ids, samples, clk, st) ==
    IF ids = <<>> THEN st
    ELSE LET person_id == Head(ids)
             stat1 == update_people_statistic(st.statistics, "IS_INFECTED")
             stat2 == IF st.times_of_infection[person_id] = 0
                      THEN update_people_statistic(stat1, "HAS_BEEN_INFECTED")
                      ELSE stat1
             incubation_event ==
                 Incubation_Event(person_id, clk, Head(samples)[1], Head(samples)[2])
         IN start_infections(Tail(ids), Tail(samples), clk,
                [infection_status |->
                     [st.infection_status EXCEPT ![person_id] = INCUBATION_STATUS],
                 statistics |-> stat2,
                 times_of_infection |->
                     [st.times_of_infection EXCEPT ![person_id] = @ + 1],
                 events |-> heappush(st.events, incubation_event)])

PeriodSamples(n) == [1 .. n -> disease.incubation_periods \X disease.disease_periods]

----------------------------------------------------------------------------
(* Conditions, commands, observers *)

Time_Point_Condition(deadline) ==
    [deadline |-> deadline, satisfied |-> FALSE]

\* Time_Point_Condition.is_satisfied: does it fire now
\* (a test that lets a clock equal to the deadline pass)
time_point_fires_at_deadline(condition, clk) ==
    condition.deadline <= clk /\ ~condition.satisfied
time_point_fires(condition, clk) ==
    condition.deadline < clk /\ ~condition.satisfied

\* Statistical_Ratio_Condition.__init__; target_ratio in percent
Statistical_Ratio_Condition(dividend, divisor, target_ratio, comparison_type, max_satisfaction) ==
    [dividend |-> dividend, divisor |-> divisor, target_ratio |-> target_ratio,
     comparison_type |-> comparison_type, max_satisfaction |-> max_satisfaction,
     can_be_satisfied |-> TRUE]

\* which class the condition object is of
is_ratio_condition(condition) == "divisor" \in DOMAIN condition

\* Comparison.compare
compare(first_argument, second_argument, operation_type) ==
    IF operation_type = "EQ" THEN first_argument = second_argument
    ELSE IF operation_type = "NE" THEN first_argument # second_argument
    ELSE IF operation_type = "LT" THEN first_argument < second_argument
    ELSE IF operation_type = "LE" THEN first_argument <= second_argument
    ELSE IF operation_type = "GE" THEN first_argument >= second_argument
    ELSE IF operation_type = "GT" THEN first_argument > second_argument
    ELSE FALSE

\* Statistical_Ratio_Condition.is_satisfied, the division
\* people_stat[dividend] / people_stat[divisor]: does it raise ZeroDivisionError
\* (a division that yields a value whatever the divisor)
divides_silently(condition, stat) == FALSE
divides_by_zero(condition, stat) ==
    is_ratio_condition(condition) /\ stat[condition.divisor] = 0

\* Statistical_Ratio_Condition.is_satisfied past the division (divisor > 0):
\* current_ratio against target_ratio, both scaled by 100 * divisor
\* (a test that reports whenever the comparison holds and a count is left)
ratio_is_satisfied_unarmed(condition, stat) ==
    LET holds == compare(100 * stat[condition.dividend],
                         condition.target_ratio * stat[condition.divisor],
                         condition.comparison_type)
        fires == holds /\ condition.max_satisfaction # 0
    IN [fires |-> fires,
        condition |-> IF fires
                      THEN [condition EXCEPT !.max_satisfaction = @ - 1,
                                             !.can_be_satisfied = FALSE]
                      ELSE [condition EXCEPT !.can_be_satisfied = TRUE]]
ratio_is_satisfied(condition, stat) ==
    LET holds == compare(100 * stat[condition.dividend],
                         condition.target_ratio * stat[condition.divisor],
                         condition.comparison_type)
        rearmed == IF ~holds THEN [condition EXCEPT !.can_be_satisfied = TRUE]
                   ELSE condition
        fires == holds /\ rearmed.max_satisfaction # 0 /\ rearmed.can_be_satisfied
    IN [fires |-> fires,
        condition |-> IF fires
                      THEN [rearmed EXCEPT !.max_satisfaction = @ - 1,
                                           !.can_be_satisfied = FALSE]
                      ELSE rearmed]

\* condition.is_satisfied(simulator, end_time) when it returns: whether the
\* returned list is non-empty, and the condition object afterwards
is_satisfied(condition, clk, stat) ==
    IF is_ratio_condition(condition) THEN ratio_is_satisfied(condition, stat)
    ELSE [fires |-> time_point_fires(condition, clk),
          condition |-> IF time_point_fires(condition, clk)
                        THEN [condition EXCEPT !.satisfied = TRUE]
                        ELSE condition]

\* condition.is_able_to_be_removed()
is_able_to_be_removed(condition) ==
    IF is_ratio_condition(condition) THEN condition.max_satisfaction = 0
    ELSE condition.satisfied

Quarantine_Single_Person(condition, id) ==
    [condition |-> condition, id |-> id, is_deleted |-> FALSE]

\* Nope.__init__ is "pass": Command.__init__ is not called, so the object has
\* neither condition nor is_deleted
Nope == [name |-> "Nope"]

\* does reading command.is_deleted find the attribute
has_is_deleted(command) == "is_deleted" \in DOMAIN command

\* Parser.parse_time, as the minutes of the Time it builds: the span from
\* unix_time - minutes * 60 to unix_time
parse_time(time_dict) ==
    LET initial_date_time == time_dict.unix_time - time_dict.minutes * 60
    IN (time_dict.unix_time - initial_date_time) \div 60

\* Parser.parse_condition, for a Time_Point_Condition dictionary
parse_condition(condition_dict) ==
    Time_Point_Condition(parse_time(condition_dict.deadline))

\* Parser.parse_command: the names it knows, and Nope for every other name
parse_command(command_dict) ==
    IF command_dict.name = "Quarantine_Single_Person"
    THEN Quarantine_Single_Person(parse_condition(command_dict.condition),
                                  command_dict.id)
    ELSE Nope

\* Parser.parse_commands
parse_commands(commands_list) ==
    [i \in 1 .. Len(commands_list) |-> parse_command(commands_list[i])]

\* Quarantine_Single_Community.__init__; the community type is named by its
\* key in simulator.communities
Quarantine_Single_Community(condition, community_type_name, community_index) ==
    [condition |-> condition, community_type_name |-> community_type_name,
     community_index |-> community_index, is_deleted |-> FALSE]

\* Community.quarantine: every sub-community closed
quarantine_community(st, c) ==
    [st EXCEPT ![c] = [index \in SubCommunities(c) |-> FALSE]]

\* Community.quarantine_subcommunity
quarantine_subcommunity(st, c, index) == [st EXCEPT ![c][index] = FALSE]

Observer(condition) ==
    [condition |-> condition, observation_id |-> 0, is_deleted |-> FALSE]

\* Person.quarantine: the person's own two edge lists
quarantine_to_edges(flags, p) ==
    [e \in Edges |-> IF e \in person_to_connection_edges(p)
                     THEN [flags[e] EXCEPT !.from_is_quarantined = TRUE]
                     ELSE flags[e]]
quarantine_from_edges(flags, p) ==
    [e \in Edges |-> IF e \in person_from_connection_edges(p)
                     THEN [flags[e] EXCEPT !.to_is_quarantined = TRUE]
                     ELSE flags[e]]

Step(name, index, clk) == [step |-> name, index |-> index, clock |-> clk]

\* one turn of the loop of Simulator.execute_observers, on observers[i]: observe
\* if runs, then the observation_is_done test; st carries observers and trace,
\* and raised once the condition's division raised ZeroDivisionError
observe_at(i, st, runs) ==
    LET observer == st.observers[i]
        raises == runs /\ divides_by_zero(observer.condition, statistics)
        result == is_satisfied(observer.condition, clock, statistics)
        observed ==
            IF runs /\ ~raises
            THEN [observer EXCEPT !.condition = result.condition,
                                  !.observation_id =
                                      IF result.fires THEN @ + 1 ELSE @]
            ELSE observer
        marked ==
            IF ~raises /\ is_able_to_be_removed(observed.condition)
            THEN [observed EXCEPT !.is_deleted = TRUE]
            ELSE observed
    IN [observers |-> [st.observers EXCEPT ![i] = marked],
        trace |-> IF runs THEN Append(st.trace, Step("observe", i, clock))
                  ELSE st.trace,
        raised |-> raises]

\* Simulator.execute_observers from position i on
\* (the loop without the is_deleted test)
RECURSIVE execute_observers_ignoring_deleted(_, _)
execute_observers_ignoring_deleted(i, st) ==
    IF i > Len(st.observers) \/ st.raised THEN st
    ELSE execute_observers_ignoring_deleted(i + 1, observe_at(i, st, TRUE))
RECURSIVE execute_observers(_, _)
execute_observers(i, st) ==
    IF i > Len(st.observers) \/ st.raised THEN st
    ELSE execute_observers(i + 1, observe_at(i, st, ~st.observers[i].is_deleted))

\* Simulator.execute_commands from position i on; the read of
\* command.is_deleted raises AttributeError on an object without it, and the
\* division in take_action's condition.is_satisfied raises ZeroDivisionError;
\* either ends the loop with the earlier commands' effects in place
RECURSIVE execute_commands(_, _)
execute_commands(i, st) ==
    IF i > Len(st.commands) THEN st
    ELSE IF ~has_is_deleted(st.commands[i]) THEN [st EXCEPT !.raised = TRUE]
    ELSE IF /\ ~st.commands[i].is_deleted
            /\ divides_by_zero(st.commands[i].condition, statistics)
         THEN [st EXCEPT !.raised = TRUE, !.zero_division = TRUE,
                         !.trace = Append(@, Step("take_action", i, clock))]
    ELSE LET command == st.commands[i]
             runs == ~command.is_deleted
             result == is_satisfied(command.condition, clock, statistics)
             fires == runs /\ result.fires
             acted ==
                 IF runs THEN [command EXCEPT !.condition = result.condition]
                 ELSE command
             hit == fires /\ "id" \in DOMAIN command /\ command.id \in People
             closes == /\ fires
                       /\ "community_index" \in DOMAIN command
                       /\ command.community_type_name \in Communities
                       /\ command.community_index = 0
             marked ==
                 IF is_able_to_be_removed(acted.condition)
                 THEN [acted EXCEPT !.is_deleted = TRUE]
                 ELSE acted
         IN execute_commands(i + 1,
                [commands |-> [st.commands EXCEPT ![i] = marked],
                 is_quarantined |->
                     IF hit THEN [st.is_quarantined EXCEPT ![command.id] = TRUE]
                     ELSE st.is_quarantined,
                 to_edges |->
                     IF hit THEN quarantine_to_edges(st.to_edges, command.id)
                     ELSE st.to_edges,
                 from_edges |->
                     IF hit THEN quarantine_from_edges(st.from_edges, command.id)
                     ELSE st.from_edges,
                 status |->
                     IF closes
                     THEN quarantine_community(st.status, command.community_type_name)
                     ELSE st.status,
                 trace |-> IF runs THEN Append(st.trace, Step("take_action", i, clock))
                           ELSE st.trace,
                 raised |-> FALSE, zero_division |-> FALSE])

----------------------------------------------------------------------------
(* Daily planning *)

\* Interval.__init__
Interval(person, start, end, community, subcommunity_type_index) ==
    [person |-> person, start |-> start, end |-> end, community |-> community,
     subcommunity_type_index |-> subcommunity_type_index,
     priority |-> role_priority(community, subcommunity_type_index)]

\* Interval.check_overlap
\* (the first of the two tests alone)
check_overlap_one_sided(interval1, interval2) ==
    interval1.start <= interval2.start /\ interval2.start <= interval1.end
check_overlap(interval1, interval2) ==
    \/ (interval1.start <= interval2.start /\ interval2.start <= interval1.end)
    \/ (interval2.start <= interval1.start /\ interval1.start <= interval2.end)

\* the sort key of resolve_intervals: (priority, end, end - start)
\* (a key that looks at the priority alone)
interval_key_le_priority_only(a, b) == a.priority <= b.priority
interval_key_le(a, b) ==
    \/ a.priority < b.priority
    \/ (a.priority = b.priority /\ a.end < b.end)
    \/ (a.priority = b.priority /\ a.end = b.end
        /\ a.end - a.start <= b.end - b.start)

\* sorted(intervals, key=...): stable
RECURSIVE insert_sorted(_, _)
insert_sorted(sorted, x) ==
    IF sorted = <<>> THEN <<x>>
    ELSE IF interval_key_le(Head(sorted), x)
         THEN <<Head(sorted)>> \o insert_sorted(Tail(sorted), x)
         ELSE <<x>> \o sorted

RECURSIVE sorted_intervals(_, _)
sorted_intervals(done, intervals) ==
    IF intervals = <<>> THEN done
    ELSE sorted_intervals(insert_sorted(done, Head(intervals)), Tail(intervals))

\* (a filter that drops nothing)
keep_overlapping(last, temp) == temp
keep_non_overlapping(last, temp) ==
    SelectSeq(temp, LAMBDA interval : ~check_overlap(last, interval))

\* the while loop of resolve_intervals
RECURSIVE resolve_loop(_, _)
resolve_loop(temp, designated_intervals) ==
    IF temp = <<>> THEN designated_intervals
    ELSE resolve_loop(keep_non_overlapping(Head(temp), Tail(temp)),
                      Append(designated_intervals, Head(temp)))

\* Plan_Day_Event.resolve_intervals
resolve_intervals(intervals) ==
    resolve_loop(sorted_intervals(<<>>, intervals), <<>>)

\* Community.is_open / Community.is_closed
is_open(c, index) == status[c][index]
is_closed(c) == \A index \in SubCommunities(c) : ~status[c][index]

Slots == {<<p, k>> : p \in People, k \in 1 .. 2} \cap
         {s \in People \X (1 .. 2) : s[2] <= Len(person_communities(s[1]))}

slot_community(s) == person_communities(s[1])[s[2]][1]
slot_index(s) == person_communities(s[1])[s[2]][2]

\* (the presence probability of the role, whatever the sub-community's status)
slot_presence_probability_ignoring_status(s) ==
    presence_prob(slot_community(s), slot_index(s))
slot_presence_probability(s) ==
    IF is_open(slot_community(s), slot_index(s))
    THEN presence_prob(slot_community(s), slot_index(s))
    ELSE 0

AllCycles == UNION {time_cycle_support(slot_community(s), slot_index(s)) : s \in Slots}

\* what the coins and the time cycle samples of one Plan_Day_Event can come out as
PlanChoices ==
    {ch \in [Slots -> [coin : BOOLEAN, cycle : AllCycles]] :
        \A s \in Slots :
            /\ ch[s].coin \in flip_coin(slot_presence_probability(s))
            /\ ch[s].cycle \in time_cycle_support(slot_community(s), slot_index(s))
            /\ (~ch[s].coin =>
                  ch[s].cycle = CHOOSE t \in
                      time_cycle_support(slot_community(s), slot_index(s)) : TRUE)}

\* the inner loop of Plan_Day_Event.activate over person.communities
RECURSIVE candidate_intervals(_, _, _)
candidate_intervals(p, k, ch) ==
    IF k > Len(person_communities(p)) THEN <<>>
    ELSE LET s == <<p, k>>
             start == ch[s].cycle[1] + clock
             end == ch[s].cycle[1] + ch[s].cycle[2] + clock
         IN (IF ~is_closed(slot_community(s)) /\ ch[s].coin
             THEN <<Interval(p, start, end, slot_community(s), slot_index(s))>>
             ELSE <<>>)
            \o candidate_intervals(p, k + 1, ch)

plans_today(p) == is_alive[p] /\ ~is_quarantined[p]

\* the intervals list of Plan_Day_Event.activate
planned_intervals(ch) ==
    Flatten([i \in 1 .. NumPeople |->
                IF plans_today(i - 1)
                THEN resolve_intervals(candidate_intervals(i - 1, 1, ch))
                ELSE <<>>])

Transition_Event(minute, interval, is_start) ==
    [Event(minute, TRANSITION) EXCEPT
        !.person = interval.person, !.community = interval.community,
        !.subcommunity_type_index = interval.subcommunity_type_index,
        !.is_start = is_start]

\* the second loop of Plan_Day_Event.activate
\* (a loop that pushes the start transition only)
transition_events_start_only(intervals) ==
    [i \in 1 .. Len(intervals) |->
        Transition_Event(intervals[i].start, intervals[i], TRUE)]
transition_events(intervals) ==
    Flatten([i \in 1 .. Len(intervals) |->
                <<Transition_Event(intervals[i].start, intervals[i], TRUE),
                  Transition_Event(intervals[i].end, intervals[i], FALSE)>>])

----------------------------------------------------------------------------
(* Virus spread *)

set_from_available(flags, S) ==
    [e \in Edges |-> IF e \in S THEN [flags[e] EXCEPT !.from_is_available = TRUE]
                     ELSE flags[e]]
set_to_available(flags, S) ==
    [e \in Edges |-> IF e \in S THEN [flags[e] EXCEPT !.to_is_available = TRUE]
                     ELSE flags[e]]

\* Connection_Edge.initialize on every edge of every person's two lists
\* (no reset: the flags of the previous tick survive)
keep_edges(flags) == flags
initialize_edges(flags) ==
    [e \in Edges |-> [flags[e] EXCEPT !.from_is_available = FALSE,
                                      !.to_is_available = FALSE]]

\* the second loop of Virus_Spread_Event.activate_edges, persons p, p+1, ...
RECURSIVE activate_from(_, _)
activate_from(p, flags) ==
    IF p >= NumPeople THEN flags
    ELSE LET place == current_location[p]
             to_list == IF place.is_family THEN family_get_all_to_edges(p)
                        ELSE community_get_all_to_edges(place.community, p,
                                                        place.subcommunity_type_index)
             from_list == IF place.is_family THEN family_get_all_from_edges(p)
                          ELSE community_get_all_from_edges(place.community, p,
                                                            place.subcommunity_type_index)
         IN activate_from(p + 1,
                IF is_alive[p]
                THEN set_to_available(set_from_available(flags, to_list), from_list)
                ELSE flags)

\* Virus_Spread_Event.activate_edges, on the objects the places register
activate_edges(flags) == activate_from(0, initialize_edges(flags))

\* the edges on which spread_disease calls is_disease_transmitted and gets past
\* the is_active test, given the flags left by activate_edges
\* (the scan without the test that the target is Clean)
scanned_edges_any_target(flags) ==
    {e \in Edges : infection_status[e.from_id] = CONTAGIOUS /\ is_active(flags[e])}
scanned_edges(flags) ==
    {e \in Edges : /\ infection_status[e.from_id] = CONTAGIOUS
                   /\ infection_status[e.to_id] = CLEAN
                   /\ is_active(flags[e])}

\* generate_infectious_rate / generate_immunity: a person without a cached
\* sample gets one (the distribution's value); a cached sample is kept
cache_samples(dict, ids, sample) ==
    [p \in (DOMAIN dict) \cup ids |-> IF p \in DOMAIN dict THEN dict[p] ELSE sample]

\* Disease_Properties.clear_cache, one dictionary
\* (a clear_cache that leaves the dictionary alone)
keep_cache(dict, id) == dict
clear_cache(dict, id) == [p \in (DOMAIN dict) \ {id} |-> dict[p]]

\* the ids is_disease_transmitted asks an infectious rate for (both ends of a
\* scanned edge) and an immunity for (the to end)
rate_sampled(flags) ==
    {e.from_id : e \in scanned_edges(flags)} \cup {e.to_id : e \in scanned_edges(flags)}
immunity_sampled(flags) == {e.to_id : e \in scanned_edges(flags)}

\* the outcomes of the coins of one scan: the set of edges that transmit
ScanOutcomes(flags) ==
    {S \in SUBSET scanned_edges(flags) :
        \A e \in scanned_edges(flags) :
            (e \in S) \in flip_coin(infection_transmission_prob(e))}

\* the ids person p appends to transmission_ids, in edge order
transmitted_by(p, S) ==
    LET mine == edges_in_order({e \in S : e.from_id = p})
    IN [i \in 1 .. Len(mine) |-> mine[i].to_id]

\* new_infected_ids as spread_disease builds it
scan_list(S) == Flatten([i \in 1 .. NumPeople |-> transmitted_by(i - 1, S)])

\* list(set(new_infected_ids))
\* (the list returned as built, without list(set(..)))
keep_duplicates(ids) == ids
deduplicate(ids) == SortedSeq(SeqToSet(ids))

----------------------------------------------------------------------------
(* The run: Simulator.simulate *)

\* the runs explored: (end_time, spread_period), initial infections, policies
RunConfigs ==
    { [end_time |-> 1440, spread_period |-> 720],
      [end_time |-> 100, spread_period |-> 60],
      [end_time |-> 2000, spread_period |-> 1440] }

InitialInfected == { <<>>, <<0>>, <<0, 2>>, <<0, 0>> }

CommandLists ==
    { <<>>,
      << Quarantine_Single_Person(Time_Point_Condition(0), 1),
         Quarantine_Single_Person(Time_Point_Condition(300), 0) >> }

ObserverLists ==
    { << Observer(Time_Point_Condition(0)), Observer(Time_Point_Condition(700)) >> }

\* the objects as the constructors leave them, before simulate is called
Constructed ==
    /\ clock = 0
    /\ events = <<>>
    /\ event = NoEvent
    /\ infection_status = [p \in People |-> CLEAN]
    /\ is_alive = [p \in People |-> TRUE]
    /\ is_quarantined = [p \in People |-> FALSE]
    /\ times_of_infection = [p \in People |-> 0]
    /\ current_location = [p \in People |-> NoPlace]
    /\ transmission_ids = [p \in People |-> <<>>]
    /\ to_edges = [e \in Edges |-> Connection_Edge]
    /\ from_edges = [e \in Edges |-> Connection_Edge]
    /\ status = [c \in Communities |-> [index \in SubCommunities(c) |-> TRUE]]
    /\ statistics = Statistics(0)
    /\ new_infected_ids = <<>>
    /\ trace = <<>>
    /\ drained = <<>>
    /\ accepted_intervals = <<>>
    /\ infectious_rate_dict = <<>>
    /\ immunity_dict = <<>>

Init ==
    /\ pc = "initialize_simulation"
    /\ \E run \in RunConfigs :
          /\ end_time = run.end_time
          /\ spread_period = run.spread_period
    /\ disease \in DiseaseConfigs
    /\ initialized_infected_ids \in InitialInfected
    /\ commands \in CommandLists
    /\ observers \in ObserverLists
    /\ person_intervals = <<>>
    /\ Constructed

\* Time.get_total_days
get_total_days(minutes) == minutes \div DayMinutes

\* Simulator.initialize_plan_day_events
\* (range(total_days) in place of range(total_days + 1))
plan_day_events_without_last_day(end) ==
    [i \in 1 .. get_total_days(end) |-> Event((i - 1) * DayMinutes, PLAN_DAY)]
plan_day_events(end) ==
    [i \in 1 .. get_total_days(end) + 1 |-> Event((i - 1) * DayMinutes, PLAN_DAY)]

\* Simulator.initialize_virus_spread_events: range(0, end + 1, period)
\* (range(0, end, period): the end minute itself left out)
virus_spread_events_before_end(end, period) ==
    [i \in 1 .. ((end - 1) \div period) + 1 |-> Event((i - 1) * period, VIRUS_SPREAD)]
virus_spread_events(end, period) ==
    [i \in 1 .. (end \div period) + 1 |-> Event((i - 1) * period, VIRUS_SPREAD)]

\* Person.initialize on every person: the edge flags it resets
person_initialize_to_edges(flags) ==
    [e \in Edges |-> [flags[e] EXCEPT !.to_is_available = FALSE,
                                      !.to_is_quarantined = FALSE]]
person_initialize_from_edges(flags) ==
    [e \in Edges |-> [flags[e] EXCEPT !.from_is_available = FALSE,
                                      !.from_is_quarantined = FALSE]]

\* Simulator.initialize_simulation
InitializeSimulation ==
    /\ pc = "initialize_simulation"
    /\ \E samples \in PeriodSamples(Len(initialized_infected_ids)) :
          LET seeded == push_all(push_all(<<>>, plan_day_events(end_time)),
                                 virus_spread_events(end_time, spread_period))
              st == start_infections(initialized_infected_ids, samples, 0,
                        [infection_status |-> infection_status,
                         statistics |-> Statistics(NumPeople),
                         times_of_infection |-> times_of_infection,
                         events |-> seeded])
          IN /\ events' = st.events
             /\ infection_status' = st.infection_status
             /\ statistics' = st.statistics
             /\ times_of_infection' = st.times_of_infection
    /\ current_location' = [p \in People |-> AtFamily]
    /\ is_quarantined' = [p \in People |-> FALSE]
    /\ to_edges' = person_initialize_to_edges(to_edges)
    /\ from_edges' = person_initialize_from_edges(from_edges)
    /\ clock' = 0
    /\ pc' = "loop"
    /\ UNCHANGED <<Cache, end_time, spread_period, disease, event, is_alive,
                   transmission_ids, status, commands, observers,
                   initialized_infected_ids, new_infected_ids, trace, drained,
                   person_intervals, accepted_intervals>>

\* the loop test passed and heappop has something to return
Pops(event_type) ==
    /\ pc = "loop"
    /\ clock < end_time
    /\ events # <<>>
    /\ heappop_item(events).type = event_type
    /\ event' = heappop_item(events)
    /\ trace' = <<Step("activate", 0, clock)>>
    /\ pc' = "execute_observers"

Config == <<end_time, spread_period, disease, initialized_infected_ids, drained,
            person_intervals, accepted_intervals>>

\* Plan_Day_Event.activate
ActivatePlanDay ==
    /\ Pops(PLAN_DAY)
    /\ \E ch \in PlanChoices :
          events' = push_all(heappop_rest(events),
                             transition_events(planned_intervals(ch)))
    /\ UNCHANGED <<Cache, clock, Config, infection_status, is_alive, is_quarantined,
                   times_of_infection, current_location, transmission_ids,
                   to_edges, from_edges, status, statistics, commands, observers,
                   new_infected_ids>>

\* Transition_Event.activate
\* (an activation that moves only a person who is alive and not quarantined)
ActivateTransitionIfFree ==
    /\ Pops(TRANSITION)
    /\ LET e == heappop_item(events)
       IN current_location' =
            IF is_alive[e.person] /\ ~is_quarantined[e.person]
            THEN [current_location EXCEPT ![e.person] =
                    IF e.is_start
                    THEN Place(e.community, e.subcommunity_type_index, FALSE)
                    ELSE Place(-1, -1, TRUE)]
            ELSE current_location
    /\ events' = heappop_rest(events)
    /\ UNCHANGED <<Cache, clock, Config, infection_status, is_alive, is_quarantined,
                   times_of_infection, transmission_ids, to_edges, from_edges,
                   status, statistics, commands, observers, new_infected_ids>>
ActivateTransition ==
    /\ Pops(TRANSITION)
    /\ LET e == heappop_item(events)
       IN current_location' =
            [current_location EXCEPT ![e.person] =
                IF e.is_start
                THEN Place(e.community, e.subcommunity_type_index, FALSE)
                ELSE Place(-1, -1, TRUE)]
    /\ events' = heappop_rest(events)
    /\ UNCHANGED <<Cache, clock, Config, infection_status, is_alive, is_quarantined,
                   times_of_infection, transmission_ids, to_edges, from_edges,
                   status, statistics, commands, observers, new_infected_ids>>

\* Virus_Spread_Event.activate
ActivateVirusSpread ==
    /\ Pops(VIRUS_SPREAD)
    /\ to_edges' = activate_edges(to_edges)
    /\ from_edges' = initialize_edges(from_edges)
    /\ infectious_rate_dict' =
          cache_samples(infectious_rate_dict,
                        rate_sampled(activate_edges(to_edges)), disease.infectious_rate)
    /\ immunity_dict' =
          cache_samples(immunity_dict,
                        immunity_sampled(activate_edges(to_edges)), disease.immunity)
    /\ \E S \in ScanOutcomes(activate_edges(to_edges)) :
          LET ids == deduplicate(scan_list(S))
          IN \E samples \in PeriodSamples(Len(ids)) :
                LET st == start_infections(ids, samples, clock,
                              [infection_status |-> infection_status,
                               statistics |-> statistics,
                               times_of_infection |-> times_of_infection,
                               events |-> heappop_rest(events)])
                IN /\ new_infected_ids' = scan_list(S)
                   /\ transmission_ids' =
                        [p \in People |-> transmission_ids[p] \o transmitted_by(p, S)]
                   /\ events' = st.events
                   /\ infection_status' = st.infection_status
                   /\ statistics' = st.statistics
                   /\ times_of_infection' = st.times_of_infection
    /\ UNCHANGED <<clock, Config, is_alive, is_quarantined, current_location,
                   status, commands, observers>>

\* Incubation_Event.activate
\* (an activation that pushes the Infection event and leaves the status alone)
ActivateIncubationKeepingStatus ==
    /\ Pops(INCUBATION)
    /\ LET e == heappop_item(events)
           infection_event ==
               [Event(e.ending_time_transmission, INFECTION) EXCEPT
                   !.person = e.person,
                   !.ending_time_transmission = e.ending_time_transmission,
                   !.death_probability = e.death_probability]
       IN events' = heappush(heappop_rest(events), infection_event)
    /\ UNCHANGED <<Cache, clock, Config, infection_status, is_alive, is_quarantined,
                   times_of_infection, current_location, transmission_ids,
                   to_edges, from_edges, status, statistics, commands, observers,
                   new_infected_ids>>
ActivateIncubation ==
    /\ Pops(INCUBATION)
    /\ LET e == heappop_item(events)
           infection_event ==
               [Event(e.ending_time_transmission, INFECTION) EXCEPT
                   !.person = e.person,
                   !.ending_time_transmission = e.ending_time_transmission,
                   !.death_probability = e.death_probability]
       IN /\ infection_status' = [infection_status EXCEPT ![e.person] = CONTAGIOUS]
          /\ events' = heappush(heappop_rest(events), infection_event)
    /\ UNCHANGED <<Cache, clock, Config, is_alive, is_quarantined, times_of_infection,
                   current_location, transmission_ids, to_edges, from_edges,
                   status, statistics, commands, observers, new_infected_ids>>

\* Infection.will_die: the coin's probability
will_die_probability(e) ==
    (e.death_probability * (100 - person_health_condition(e.person))) \div 100

\* Infection_Event.activate
ActivateInfection ==
    /\ Pops(INFECTION)
    /\ LET e == heappop_item(events)
           recovered == update_people_statistic(statistics, "IS_NOT_INFECTED")
       IN /\ infection_status' = [infection_status EXCEPT ![e.person] = CLEAN]
          /\ \E will_die \in flip_coin(will_die_probability(e)) :
                IF will_die
                THEN /\ is_alive' = [is_alive EXCEPT ![e.person] = FALSE]
                     /\ statistics' = update_people_statistic(recovered, "DEAD")
                ELSE /\ is_alive' = is_alive
                     /\ statistics' = recovered
          /\ infectious_rate_dict' = clear_cache(infectious_rate_dict, e.person)
          /\ immunity_dict' = clear_cache(immunity_dict, e.person)
    /\ events' = heappop_rest(events)
    /\ UNCHANGED <<clock, Config, is_quarantined, times_of_infection,
                   current_location, transmission_ids, to_edges, from_edges,
                   status, commands, observers, new_infected_ids>>

\* heapq.heappop on an empty list raises IndexError out of simulate
PopEmptyHeap ==
    /\ pc = "loop"
    /\ clock < end_time
    /\ events = <<>>
    /\ pc' = "IndexError"
    /\ UNCHANGED <<Cache, clock, Config, events, event, infection_status, is_alive,
                   is_quarantined, times_of_infection, current_location,
                   transmission_ids, to_edges, from_edges, status, statistics,
                   commands, observers, new_infected_ids, trace>>

\* self.execute_observers()
ExecuteObservers ==
    /\ pc = "execute_observers"
    /\ LET st == execute_observers(1, [observers |-> observers, trace |-> trace,
                                       raised |-> FALSE])
       IN /\ observers' = st.observers
          /\ trace' = st.trace
          /\ pc' = IF st.raised THEN "ZeroDivisionError" ELSE "execute_commands"
    /\ UNCHANGED <<Cache, clock, Config, events, event, infection_status, is_alive,
                   is_quarantined, times_of_infection, current_location,
                   transmission_ids, to_edges, from_edges, status, statistics,
                   commands, new_infected_ids>>

\* self.execute_commands()
ExecuteCommands ==
    /\ pc = "execute_commands"
    /\ LET st == execute_commands(1,
                    [commands |-> commands, is_quarantined |-> is_quarantined,
                     to_edges |-> to_edges, from_edges |-> from_edges,
                     status |-> status, trace |-> trace, raised |-> FALSE,
                     zero_division |-> FALSE])
       IN /\ commands' = st.commands
          /\ is_quarantined' = st.is_quarantined
          /\ status' = st.status
          /\ to_edges' = st.to_edges
          /\ from_edges' = st.from_edges
          /\ trace' = st.trace
          /\ pc' = IF st.zero_division THEN "ZeroDivisionError"
                   ELSE IF st.raised THEN "AttributeError"
                   ELSE "set_minutes"
    /\ UNCHANGED <<Cache, clock, Config, events, event, infection_status, is_alive,
                   times_of_infection, current_location, transmission_ids,
                   statistics, observers, new_infected_ids>>

\* self.clock.set_minutes(event.minute)
UpdateClock ==
    /\ pc = "set_minutes"
    /\ clock' = event.minute
    /\ trace' = Append(trace, Step("set_minutes", 0, clock))
    /\ pc' = "loop"
    /\ UNCHANGED <<Cache, Config, events, event, infection_status, is_alive,
                   is_quarantined, times_of_infection, current_location,
                   transmission_ids, to_edges, from_edges, status, statistics,
                   commands, observers, new_infected_ids>>

\* the loop test fails: Time.check_less(self.clock, self.end_time) is false
Complete ==
    /\ pc = "loop"
    /\ ~(clock < end_time)
    /\ pc' = "completed"
    /\ UNCHANGED <<Cache, clock, Config, events, event, infection_status, is_alive,
                   is_quarantined, times_of_infection, current_location,
                   transmission_ids, to_edges, from_edges, status, statistics,
                   commands, observers, new_infected_ids, trace>>

Next ==
    \/ InitializeSimulation
    \/ ActivatePlanDay
    \/ ActivateTransition
    \/ ActivateVirusSpread
    \/ ActivateIncubation
    \/ ActivateInfection
    \/ PopEmptyHeap
    \/ ExecuteObservers
    \/ ExecuteCommands
    \/ UpdateClock
    \/ Complete

Spec == Init /\ [][Next]_vars

----------------------------------------------------------------------------
(* The heap on its own: any pushes and pops, in any order *)

HeapInit ==
    /\ pc = "heap"
    /\ end_time = 0
    /\ spread_period = 1
    /\ disease \in {d \in DiseaseConfigs : d.death_probability = 0}
    /\ initialized_infected_ids = <<>>
    /\ commands = <<>>
    /\ observers = <<>>
    /\ person_intervals = <<>>
    /\ Constructed

HeapFrame ==
    UNCHANGED <<Cache, pc, clock, end_time, spread_period, disease, infection_status,
                is_alive, is_quarantined, times_of_infection, current_location,
                transmission_ids, to_edges, from_edges, status, statistics,
                commands, observers, initialized_infected_ids, new_infected_ids,
                trace, person_intervals, accepted_intervals>>

\* heapq.heappush(self.events, Event(minute, event_type))
HeapPush ==
    /\ pc = "heap"
    /\ Len(events) < MaxHeap
    /\ \E minute \in 0 .. MaxMinute, event_type \in Simulation_Event :
          events' = heappush(events, Event(minute, event_type))
    /\ drained' = <<>>
    /\ UNCHANGED event
    /\ HeapFrame

\* event = heapq.heappop(self.events)
HeapPop ==
    /\ pc = "heap"
    /\ events # <<>>
    /\ event' = heappop_item(events)
    /\ events' = heappop_rest(events)
    /\ drained' = Append(drained, heappop_item(events))
    /\ HeapFrame

HeapNext == HeapPush \/ HeapPop

HeapSpec == HeapInit /\ [][HeapNext]_vars

----------------------------------------------------------------------------
(* The resolver on its own: resolve_intervals on any short candidate list *)

\* the sub-communities a candidate can be for: one of each role priority
CandidatePlaces == {<<0, 0>>, <<0, 1>>, <<1, 0>>}

\* the candidates of one person, start <= end
CandidateIntervals ==
    {Interval(0, t[1], t[2], c[1], c[2]) :
        t \in {u \in (0 .. MaxTime) \X (0 .. MaxTime) : u[1] <= u[2]},
        c \in CandidatePlaces}

CandidateLists == UNION {[1 .. n -> CandidateIntervals] : n \in 0 .. MaxIntervals}

ResolveInit ==
    /\ pc = "resolve_intervals"
    /\ end_time = 0
    /\ spread_period = 1
    /\ disease \in {d \in DiseaseConfigs : d.death_probability = 0}
    /\ initialized_infected_ids = <<>>
    /\ commands = <<>>
    /\ observers = <<>>
    /\ person_intervals \in CandidateLists
    /\ Constructed

\* person_intervals = Plan_Day_Event.resolve_intervals(person_intervals)
Resolve ==
    /\ pc = "resolve_intervals"
    /\ accepted_intervals' = resolve_intervals(person_intervals)
    /\ pc' = "resolved"
    /\ UNCHANGED <<Cache, clock, end_time, spread_period, disease, events, event,
                   infection_status, is_alive, is_quarantined, times_of_infection,
                   current_location, transmission_ids, to_edges, from_edges,
                   status, statistics, commands, observers,
                   initialized_infected_ids, new_infected_ids, trace, drained,
                   person_intervals>>

ResolveNext == Resolve

ResolveSpec == ResolveInit /\ [][ResolveNext]_vars

----------------------------------------------------------------------------
(* The seeding on its own: initialize_simulation over more run lengths *)

SeedRunConfigs ==
    [end_time : {100, 1440, 2000, 2880}, spread_period : {60, 720, 1440}]

SeedInit ==
    /\ pc = "initialize_simulation"
    /\ \E run \in SeedRunConfigs :
          /\ end_time = run.end_time
          /\ spread_period = run.spread_period
    /\ disease \in DiseaseConfigs
    /\ initialized_infected_ids \in InitialInfected
    /\ commands \in CommandLists
    /\ observers \in ObserverLists
    /\ person_intervals = <<>>
    /\ Constructed

SeedNext == InitializeSimulation

SeedSpec == SeedInit /\ [][SeedNext]_vars

----------------------------------------------------------------------------
(* Runs whose commands come from a scenario file *)

\* Time.to_json of a time that many minutes after a start at unix time 86400
Time_Dict(minutes) ==
    [name |-> "Time", minutes |-> minutes, unix_time |-> 86400 + minutes * 60]

\* Time_Point_Condition.to_json
Time_Point_Dict(deadline) ==
    [name |-> "Time_Point_Condition", deadline |-> Time_Dict(deadline)]

\* a command dictionary of a kind the parser knows, and one of a kind it does not
Quarantine_Single_Person_Dict(deadline, id) ==
    [name |-> "Quarantine_Single_Person", condition |-> Time_Point_Dict(deadline),
     id |-> id]
Unknown_Dict == [name |-> "Vaccinate_Single_Person"]

ScenarioCommandLists ==
    { <<>>,
      << Quarantine_Single_Person_Dict(0, 1), Quarantine_Single_Person_Dict(300, 0) >>,
      << Unknown_Dict >>,
      << Quarantine_Single_Person_Dict(0, 1), Unknown_Dict >> }

ScenarioInit ==
    /\ pc = "initialize_simulation"
    /\ \E run \in RunConfigs :
          /\ end_time = run.end_time
          /\ spread_period = run.spread_period
    /\ disease \in DiseaseConfigs
    /\ initialized_infected_ids \in InitialInfected
    /\ \E commands_list \in ScenarioCommandLists :
          commands = parse_commands(commands_list)
    /\ observers \in ObserverLists
    /\ person_intervals = <<>>
    /\ Constructed

ScenarioSpec == ScenarioInit /\ [][Next]_vars

----------------------------------------------------------------------------
(* Runs whose commands and observers wait on a ratio of two counters *)

RatioCommandLists ==
    { << Quarantine_Single_Person(
             Statistical_Ratio_Condition("DEAD", "ALIVE", 700, "EQ", 1), 1) >>,
      << Quarantine_Single_Person(Time_Point_Condition(0), 1),
         Quarantine_Single_Person(
             Statistical_Ratio_Condition("IS_INFECTED", "ALL", 30, "GE", 1), 0) >>,
      << Quarantine_Single_Person(
             Statistical_Ratio_Condition("IS_INFECTED", "DEAD", 50, "GT", 1), 0) >> }

RatioObserverLists ==
    { << Observer(Time_Point_Condition(0)) >>,
      << Observer(Statistical_Ratio_Condition("HAS_BEEN_INFECTED", "IS_INFECTED",
                                              100, "GE", 2)) >> }

RatioInit ==
    /\ pc = "initialize_simulation"
    /\ \E run \in RunConfigs :
          /\ end_time = run.end_time
          /\ spread_period = run.spread_period
    /\ disease \in DiseaseConfigs
    /\ initialized_infected_ids \in { <<>>, <<0, 2>> }
    /\ commands \in RatioCommandLists
    /\ observers \in RatioObserverLists
    /\ person_intervals = <<>>
    /\ Constructed

RatioSpec == RatioInit /\ [][Next]_vars

----------------------------------------------------------------------------
(* Runs under community closures: a sub-community closed through the       *)
(* Community object before simulate is called, a whole community closed by *)
(* a command during the run                                                 *)

ClosureCommandLists ==
    { << Quarantine_Single_Community(Time_Point_Condition(0), 0, 0) >>,
      << Quarantine_Single_Person(Time_Point_Condition(0), 1),
         Quarantine_Single_Community(Time_Point_Condition(300), 1, 0) >> }

ClosureInit ==
    /\ pc = "initialize_simulation"
    /\ \E run \in RunConfigs :
          /\ end_time = run.end_time
          /\ spread_period = run.spread_period
    /\ disease \in DiseaseConfigs
    /\ initialized_infected_ids \in { <<>>, <<0>> }
    /\ commands \in ClosureCommandLists
    /\ observers \in ObserverLists
    /\ person_intervals = <<>>
    /\ Constructed

\* community.quarantine_subcommunity(index), called on the built simulator
\* before simulate
QuarantineSubcommunity ==
    /\ pc = "initialize_simulation"
    /\ \A c \in Communities : \A index \in SubCommunities(c) : status[c][index]
    /\ \E c \in Communities : \E index \in SubCommunities(c) :
          status' = quarantine_subcommunity(status, c, index)
    /\ UNCHANGED <<Cache, pc, clock, Config, events, event, infection_status, is_alive,
                   is_quarantined, times_of_infection, current_location,
                   transmission_ids, to_edges, from_edges, statistics, commands,
                   observers, new_infected_ids, trace>>

ClosureNext == QuarantineSubcommunity \/ Next

ClosureSpec == ClosureInit /\ [][ClosureNext]_vars

----------------------------------------------------------------------------
(* Runs of a disease that kills within the day: a person planned in the    *)
(* morning can be dead when the planned transitions fire                   *)

QuickDiseaseConfigs ==
    { [infectious_rate |-> 100, immunity |-> 0, death_probability |-> 100,
       incubation_periods |-> {0, 200}, disease_periods |-> {0, 100}],
      [infectious_rate |-> 50, immunity |-> 0, death_probability |-> 50,
       incubation_periods |-> {200}, disease_periods |-> {100}] }

QuickInit ==
    /\ pc = "initialize_simulation"
    /\ \E run \in RunConfigs :
          /\ end_time = run.end_time
          /\ spread_period = run.spread_period
    /\ disease \in QuickDiseaseConfigs
    /\ initialized_infected_ids \in { <<0>>, <<1, 2>> }
    /\ commands \in CommandLists
    /\ observers \in ObserverLists
    /\ person_intervals = <<>>
    /\ Constructed

QuickSpec == QuickInit /\ [][Next]_vars

----------------------------------------------------------------------------
(* Runs in which the share of infected people falls, rises and falls again *)
(* while hooks wait on it                                                   *)

RearmCommandLists ==
    { << Quarantine_Single_Person(
             Statistical_Ratio_Condition("IS_INFECTED", "ALL", 40, "LE", 2), 1) >>,
      << Quarantine_Single_Person(
             Statistical_Ratio_Condition("IS_INFECTED", "ALL", 40, "LE", 0), 1),
         Quarantine_Single_Person(
             Statistical_Ratio_Condition("IS_INFECTED", "ALL", 60, "GE", 1), 2) >> }

RearmObserverLists ==
    { << Observer(Statistical_Ratio_Condition("IS_INFECTED", "ALL", 40, "LE", 2)) >> }

RearmInit ==
    /\ pc = "initialize_simulation"
    /\ \E run \in RunConfigs :
          /\ end_time = run.end_time
          /\ spread_period = run.spread_period
    /\ disease \in QuickDiseaseConfigs
    /\ initialized_infected_ids \in { <<0>>, <<1, 2>> }
    /\ commands \in RearmCommandLists
    /\ observers \in RearmObserverLists
    /\ person_intervals = <<>>
    /\ Constructed

RearmSpec == RearmInit /\ [][Next]_vars

----------------------------------------------------------------------------
(* Runs whose commands wait for a minute late in the run *)

LateCommandLists ==
    { << Quarantine_Single_Person(Time_Point_Condition(1000), 1) >>,
      << Quarantine_Single_Person(Time_Point_Condition(300), 0),
         Quarantine_Single_Person(Time_Point_Condition(1439), 1) >> }

LateInit ==
    /\ pc = "initialize_simulation"
    /\ \E run \in RunConfigs :
          /\ end_time = run.end_time
          /\ spread_period = run.spread_period
    /\ disease \in DiseaseConfigs
    /\ initialized_infected_ids \in { <<>>, <<0>> }
    /\ commands \in LateCommandLists
    /\ observers \in ObserverLists
    /\ person_intervals = <<>>
    /\ Constructed

LateSpec == LateInit /\ [][Next]_vars

----------------------------------------------------------------------------
(* Properties *)

KeyLe(a, b) ==
    a.minute < b.minute \/ (a.minute = b.minute /\ a.priority <= b.priority)

InHeap(heap) == {heap[i] : i \in 1 .. Len(heap)}

\* C1: a pop returns an event whose (minute, priority) key is minimal among the
\* events in the heap at that moment, and the events popped since the last
\* push come out in non-decreasing key order.
C1_PopReturnsMinimum ==
    /\ (drained # <<>> =>
           /\ event = drained[Len(drained)]
           /\ \A e \in InHeap(events) : KeyLe(event, e))
    /\ \A i \in 1 .. Len(drained) - 1 : KeyLe(drained[i], drained[i + 1])

\* C1 witness: a heap holding several different keys has been popped empty
C1_Witness ==
    /\ pc = "heap"
    /\ events = <<>>
    /\ Len(drained) >= 3
    /\ Cardinality({<<drained[i].minute, drained[i].priority>> :
                        i \in 1 .. Len(drained)}) >= 3


PoppedBy(event_type) ==
    pc = "loop" /\ pc' = "execute_observers" /\ event'.type = event_type

AfterActivation(event_type) ==
    pc = "execute_observers" /\ event.type = event_type

\* C2: the clock never decreases: every step leaves it at or above its
\* previous value.
C2_ClockNeverDecreases == [][clock' >= clock]_vars

\* C3: whenever the loop test passes (clock < end_time) and the loop is about
\* to pop, the heap holds at least one event.
C3_HeapNonEmptyAtPop ==
    (pc = "loop" /\ clock < end_time) => events # <<>>

\* the run has left the main loop, by the loop test or by an exception
LeftMainLoop == pc \in {"completed", "IndexError"}

\* C4: every run leaves the main loop through the loop test, with
\* clock >= end_time (the Completed state), never otherwise.
C4_RunCompletes == LeftMainLoop => (pc = "completed" /\ clock >= end_time)

\* the steps a hook list appends to the trace: one per entry not yet deleted,
\* in list order, each reading the given clock
RECURSIVE RanSteps(_, _, _, _)
RanSteps(name, list, i, clk) ==
    IF i > Len(list) THEN <<>>
    ELSE (IF list[i].is_deleted THEN <<>> ELSE <<Step(name, i, clk)>>)
         \o RanSteps(name, list, i + 1, clk)

\* C5: an iteration pops and activates one event, then runs every non-deleted
\* observer in list order, then every non-deleted command in list order, and
\* only then sets the clock to the popped event's minute; all of them read
\* the clock left by the previous iteration.
C5_IterationOrder ==
    [][ /\ (pc = "loop" /\ pc' = "execute_observers") =>
             /\ event' \in InHeap(events)
             /\ Len(events') >= Len(events) - 1
             /\ trace' = <<Step("activate", 0, clock)>>
             /\ clock' = clock
        /\ (pc = "execute_observers") =>
             /\ pc' = "execute_commands"
             /\ trace' = trace \o RanSteps("observe", observers, 1, clock)
             /\ clock' = clock /\ event' = event /\ events' = events
        /\ (pc = "execute_commands") =>
             /\ pc' = "set_minutes"
             /\ trace' = trace \o RanSteps("take_action", commands, 1, clock)
             /\ clock' = clock /\ event' = event /\ events' = events
        /\ (pc = "set_minutes") =>
             /\ pc' = "loop"
             /\ clock' = event.minute
             /\ \A i \in 1 .. Len(trace) : trace[i].clock = clock
             /\ events' = events
      ]_vars

\* C5 witness: an iteration in which an observer and a command both ran, and
\* whose event moved the clock
C5_Witness ==
    /\ pc = "loop"
    /\ Len(trace) >= 4
    /\ \E i, j \in 1 .. Len(trace) :
          i < j /\ trace[i].step = "observe" /\ trace[j].step = "take_action"
    /\ trace[Len(trace)].step = "set_minutes"
    /\ trace[Len(trace)].clock < clock

\* C6: an event's priority is the number of its kind (Incubation 1, Infection 2,
\* PlanDay 3, Transition 4, VirusSpread 5), and an event is never popped while
\* the heap holds an event of the same minute with a smaller priority number.
C6_PriorityOrder ==
    [][ /\ \A e \in InHeap(events') :
             /\ (e.type = INCUBATION => e.priority = 1)
             /\ (e.type = INFECTION => e.priority = 2)
             /\ (e.type = PLAN_DAY => e.priority = 3)
             /\ (e.type = TRANSITION => e.priority = 4)
             /\ (e.type = VIRUS_SPREAD => e.priority = 5)
        /\ (pc = "loop" /\ pc' = "execute_observers") =>
             \A e \in InHeap(events) :
                 e.minute = event'.minute => event'.priority <= e.priority
      ]_vars

\* C6 witness: an Incubation event, pushed after the seeded events, was popped
\* ahead of a VirusSpread event of the same minute that was pushed before it
C6_Witness ==
    /\ pc = "execute_observers"
    /\ event.type = INCUBATION
    /\ \E e \in InHeap(events) :
          e.minute = event.minute /\ e.type = VIRUS_SPREAD

\* C7: once a command has quarantined a person, the person's own edge lists
\* carry the person's side quarantine flag, and at a VirusSpread event no edge
\* leaving or entering the person is active, the person infects nobody and is
\* infected by nobody.
C7_QuarantineCutsEdges ==
    \A p \in People : is_quarantined[p] =>
        /\ \A e \in person_to_connection_edges(p) : to_edges[e].from_is_quarantined
        /\ \A e \in person_from_connection_edges(p) : from_edges[e].to_is_quarantined
        /\ AfterActivation(VIRUS_SPREAD) =>
              /\ \A e \in Edges :
                    (e.from_id = p \/ e.to_id = p) => ~is_active(to_edges[e])
              /\ p \notin SeqToSet(new_infected_ids)

\* is person p, as far as edge e's given side is concerned, where e belongs
AtPlaceOf(e, p, index) ==
    IF e.is_family THEN current_location[p].is_family
    ELSE /\ ~current_location[p].is_family
         /\ current_location[p].community = e.community
         /\ current_location[p].subcommunity_type_index = index

\* C8: right after the edge activation of a VirusSpread event, an edge that a
\* family or community registers has its from (to) side available exactly
\* when its from (to) endpoint is alive and is at the edge's place; every other
\* availability flag is false.
C8_AvailabilityFromLocation ==
    AfterActivation(VIRUS_SPREAD) =>
        \A e \in Edges :
            /\ to_edges[e].from_is_available <=>
                  (is_alive[e.from_id] /\ AtPlaceOf(e, e.from_id, e.from_index))
            /\ to_edges[e].to_is_available <=>
                  (is_alive[e.to_id] /\ AtPlaceOf(e, e.to_id, e.to_index))
            /\ ~from_edges[e].from_is_available
            /\ ~from_edges[e].to_is_available

\* C8 witness: a VirusSpread event has run with somebody dead, somebody at a
\* community and somebody at home
C8_Witness ==
    /\ AfterActivation(VIRUS_SPREAD)
    /\ \E p \in People : ~is_alive[p]
    /\ \E e \in Edges : ~e.is_family /\ to_edges[e].from_is_available
    /\ \E e \in Edges : e.is_family /\ to_edges[e].to_is_available
    /\ \E e \in Edges : e.is_family /\ ~to_edges[e].to_is_available

\* C9: in a VirusSpread event a person goes from Clean to Incubating only if
\* some person Contagious at the scan has an active outbound edge to them;
\* nobody Incubating or Contagious is targeted, and nobody Clean or Incubating
\* transmits.
C9_OnlyContagiousInfectClean ==
    [][ PoppedBy(VIRUS_SPREAD) =>
          \A p \in People :
             /\ (infection_status[p] = CLEAN /\ infection_status'[p] # CLEAN) =>
                   /\ infection_status'[p] = INCUBATION_STATUS
                   /\ \E e \in Edges :
                         /\ e.to_id = p
                         /\ infection_status[e.from_id] = CONTAGIOUS
                         /\ is_active(to_edges'[e])
             /\ (infection_status[p] # CLEAN) =>
                   /\ infection_status'[p] = infection_status[p]
                   /\ times_of_infection'[p] = times_of_infection[p]
                   /\ p \notin SeqToSet(new_infected_ids')
             /\ (infection_status[p] # CONTAGIOUS) =>
                   transmission_ids'[p] = transmission_ids[p]
      ]_vars

\* C9 witness: a VirusSpread event has infected somebody while somebody else
\* was Incubating or Contagious and was left alone
C9_Witness ==
    /\ AfterActivation(VIRUS_SPREAD)
    /\ new_infected_ids # <<>>
    /\ \E p \in People : p \notin SeqToSet(new_infected_ids)
                         /\ infection_status[p] # CLEAN

CountEvents(heap, event_type, p) ==
    Cardinality({i \in 1 .. Len(heap) : heap[i].type = event_type /\ heap[i].person = p})

\* C10: in one VirusSpread event every newly infected person is started once,
\* however many neighbours infected them: times_of_infection + 1, IS_INFECTED
\* + 1 each, HAS_BEEN_INFECTED + 1 for first infections only, one Incubation
\* event pushed each.
C10_StartedExactlyOnce ==
    [][ PoppedBy(VIRUS_SPREAD) =>
          LET started == SeqToSet(new_infected_ids')
              first == {p \in started : times_of_infection[p] = 0}
          IN /\ \A p \in People :
                  /\ times_of_infection'[p] =
                        times_of_infection[p] + (IF p \in started THEN 1 ELSE 0)
                  /\ CountEvents(events', INCUBATION, p) =
                        CountEvents(events, INCUBATION, p)
                        + (IF p \in started THEN 1 ELSE 0)
             /\ statistics'.IS_INFECTED = statistics.IS_INFECTED + Cardinality(started)
             /\ statistics'.IS_NOT_INFECTED =
                   statistics.IS_NOT_INFECTED - Cardinality(started)
             /\ statistics'.HAS_BEEN_INFECTED =
                   statistics.HAS_BEEN_INFECTED + Cardinality(first)
      ]_vars

\* C10 witness: two Contagious neighbours succeeded on the same person in one scan
C10_Witness ==
    /\ AfterActivation(VIRUS_SPREAD)
    /\ Len(new_infected_ids) > Cardinality(SeqToSet(new_infected_ids))

----------------------------------------------------------------------------
(* Infection life cycle and statistics *)

\* no id occurs twice in the list
Distinct(ids) == \A i, j \in 1 .. Len(ids) : ids[i] = ids[j] => i = j

\* the step runs Infection.start_infections
StartsInfections == pc = "initialize_simulation" \/ PoppedBy(VIRUS_SPREAD)

\* C11: with distinct initial infected ids, a person's status only changes
\* Clean -> Incubating (in a step that runs start_infections), Incubating ->
\* Contagious (the person's Incubation event) and Contagious -> Clean (the
\* person's Infection event, the only step that may also clear is_alive);
\* an Incubation event finds its person Incubating and an Infection event
\* finds its person Contagious.
C11_StatusCycle ==
    [][ Distinct(initialized_infected_ids) =>
          /\ \A p \in People :
                /\ infection_status'[p] # infection_status[p] =>
                      \/ /\ infection_status[p] = CLEAN
                         /\ infection_status'[p] = INCUBATION_STATUS
                         /\ StartsInfections
                      \/ /\ infection_status[p] = INCUBATION_STATUS
                         /\ infection_status'[p] = CONTAGIOUS
                         /\ PoppedBy(INCUBATION) /\ event'.person = p
                      \/ /\ infection_status[p] = CONTAGIOUS
                         /\ infection_status'[p] = CLEAN
                         /\ PoppedBy(INFECTION) /\ event'.person = p
                /\ is_alive'[p] # is_alive[p] =>
                      /\ ~is_alive'[p]
                      /\ PoppedBy(INFECTION) /\ event'.person = p
          /\ PoppedBy(INCUBATION) =>
                infection_status[event'.person] = INCUBATION_STATUS
          /\ PoppedBy(INFECTION) =>
                infection_status[event'.person] = CONTAGIOUS
      ]_vars

\* C11 witness: in a run with two distinct initial ids, a person infected by
\* a neighbour has gone round the whole cycle and is Clean again, and
\* somebody has died
C11_Witness ==
    /\ Len(initialized_infected_ids) = 2 /\ Distinct(initialized_infected_ids)
    /\ AfterActivation(INFECTION)
    /\ event.person \notin SeqToSet(initialized_infected_ids)
    /\ infection_status[event.person] = CLEAN
    /\ \E p \in People : ~is_alive[p]

\* C12: IS_INFECTED + IS_NOT_INFECTED equals the ALIVE counter in every state,
\* hence after every statistics update, deaths included.
C12_InfectedSplitsAlive ==
    statistics.IS_INFECTED + statistics.IS_NOT_INFECTED = statistics.ALIVE

\* the statistics object of the run exists
StatisticsBuilt == pc # "initialize_simulation" /\ pc # "heap"

\* C13: DEAD + ALIVE = ALL, HAS_BEEN_INFECTED + HAS_NOT_BEEN_INFECTED = ALL,
\* and ALL stays the population size, in every state of the run.
C13_PairedCountersConserved ==
    StatisticsBuilt =>
        /\ statistics.DEAD + statistics.ALIVE = statistics.ALL
        /\ statistics.HAS_BEEN_INFECTED + statistics.HAS_NOT_BEEN_INFECTED
              = statistics.ALL
        /\ statistics.ALL = NumPeople

\* C13 witness: somebody has died and at least two people have been infected
C13_Witness ==
    /\ StatisticsBuilt
    /\ statistics.DEAD >= 1
    /\ statistics.HAS_BEEN_INFECTED >= 2

C15_AcceptedDoNotOverlap ==
    pc = "resolved" =>
        /\ \A i, j \in 1 .. Len(accepted_intervals) :
              i # j => ~check_overlap(accepted_intervals[i], accepted_intervals[j])
        /\ SeqToSet(accepted_intervals) \subseteq SeqToSet(person_intervals)

\* C15 witness: overlapping candidates were given, one was dropped and two kept
C15_Witness ==
    /\ pc = "resolved"
    /\ Len(person_intervals) = 3
    /\ Len(accepted_intervals) = 2
    /\ \E i, j \in 1 .. Len(person_intervals) :
          i # j /\ person_intervals[i] # person_intervals[j]
          /\ check_overlap(person_intervals[i], person_intervals[j])

\* initialize_simulation has returned and nothing has been popped yet
Seeded == pc = "loop" /\ trace = <<>>

\* how many events of the heap have this kind and this minute
CountAt(heap, event_type, minute) ==
    Cardinality({i \in 1 .. Len(heap) :
                    heap[i].type = event_type /\ heap[i].minute = minute})

CountKind(heap, event_type) ==
    Cardinality({i \in 1 .. Len(heap) : heap[i].type = event_type})

\* how often id p occurs in the list
Occurrences(ids, p) == Cardinality({i \in 1 .. Len(ids) : ids[i] = p})

\* C16: before the first pop the heap holds exactly one PlanDay event at
\* 1440 * d for each day d in 0 .. total_days, one VirusSpread event at each
\* multiple of spread_period in [0, end_time], one Incubation event per id of
\* the initial infected list, and nothing else.
C16_InitialHeap ==
    Seeded =>
        LET total_days == end_time \div 1440
            spreads == end_time \div spread_period
        IN /\ \A d \in 0 .. total_days : CountAt(events, PLAN_DAY, 1440 * d) = 1
           /\ CountKind(events, PLAN_DAY) = total_days + 1
           /\ \A k \in 0 .. spreads :
                 CountAt(events, VIRUS_SPREAD, k * spread_period) = 1
           /\ CountKind(events, VIRUS_SPREAD) = spreads + 1
           /\ \A p \in People :
                 CountEvents(events, INCUBATION, p)
                    = Occurrences(initialized_infected_ids, p)
           /\ CountKind(events, INCUBATION) = Len(initialized_infected_ids)
           /\ Len(events) = (total_days + 1) + (spreads + 1)
                               + Len(initialized_infected_ids)

\* C16 witness: a seeded heap of a run of two whole days and a part, with
\* two initial infections
C16_Witness ==
    /\ Seeded
    /\ end_time = 2880 /\ spread_period = 720
    /\ Len(initialized_infected_ids) = 2
    /\ CountKind(events, PLAN_DAY) = 3

\* the scenario: spread period 60 minutes, end time one day, initial infected [0]
HourlyOneDay ==
    spread_period = 60 /\ end_time = 1440 /\ initialized_infected_ids = <<0>>

\* C17 as stated: in that scenario the initial heap holds at least one
\* PlanDay event, 24 VirusSpread events and exactly one Incubation event.
C17_Seed24 ==
    (Seeded /\ HourlyOneDay) =>
        /\ CountKind(events, PLAN_DAY) >= 1
        /\ CountKind(events, VIRUS_SPREAD) = 24
        /\ CountKind(events, INCUBATION) = 1

\* C17 amended: in that scenario the initial heap holds two PlanDay events
\* (minutes 0 and 1440), 25 VirusSpread events (minutes 0, 60, ..., 1440, both
\* ends included) and exactly one Incubation event.
C17_Seed25 ==
    (Seeded /\ HourlyOneDay) =>
        /\ CountKind(events, PLAN_DAY) = 2
        /\ CountKind(events, VIRUS_SPREAD) = 25
        /\ \A k \in 0 .. 24 : CountAt(events, VIRUS_SPREAD, 60 * k) = 1
        /\ CountKind(events, INCUBATION) = 1
        /\ CountEvents(events, INCUBATION, 0) = 1

\* C17 witness: the scenario's heap, seeded
C17_Witness == Seeded /\ HourlyOneDay /\ Len(events) = 28

\* C18: at a VirusSpread event with infectious rate 1 and immunity 0, if an
\* edge of transmission potential 1 carries no quarantine flag, both its
\* endpoints are alive and at the edge's place, the source is Contagious and
\* the target Clean, then the target is Incubating after the event.
C18_CertainTransmission ==
    [][ (PoppedBy(VIRUS_SPREAD) /\ disease.infectious_rate = 100
                                /\ disease.immunity = 0) =>
          \A e \in Edges :
             ( /\ transmission_potential(e) = 100
               /\ is_alive[e.from_id] /\ is_alive[e.to_id]
               /\ AtPlaceOf(e, e.from_id, e.from_index)
               /\ AtPlaceOf(e, e.to_id, e.to_index)
               /\ ~to_edges[e].from_is_quarantined
               /\ ~to_edges[e].to_is_quarantined
               /\ infection_status[e.from_id] = CONTAGIOUS
               /\ infection_status[e.to_id] = CLEAN )
             => infection_status'[e.to_id] = INCUBATION_STATUS
      ]_vars

\* C18 witness: with rate 1 and immunity 0, a VirusSpread event has infected a
\* person who was away from home, in a community with the Contagious source
C18_Witness ==
    /\ AfterActivation(VIRUS_SPREAD)
    /\ disease.infectious_rate = 100 /\ disease.immunity = 0
    /\ \E e \in Edges :
          /\ ~e.is_family
          /\ is_active(to_edges[e])
          /\ infection_status[e.from_id] = CONTAGIOUS
          /\ infection_status[e.to_id] = INCUBATION_STATUS
          /\ e.to_id \in SeqToSet(new_infected_ids)

\* the four flags of an edge object say: available on both sides, quarantined
\* on neither
OpenOnBothSides(flags) ==
    /\ flags.from_is_available = TRUE /\ flags.to_is_available = TRUE
    /\ flags.from_is_quarantined = FALSE /\ flags.to_is_quarantined = FALSE

\* C19: in every state, for every edge object, is_active() is true exactly
\* when both availability flags are true and both quarantine flags are false;
\* in particular after a VirusSpread event, everybody the scan infected was
\* reached over an edge object with these four flag values.
C19_ActiveIffFlags ==
    /\ \A e \in Edges :
          /\ is_active(to_edges[e]) <=> OpenOnBothSides(to_edges[e])
          /\ is_active(from_edges[e]) <=> OpenOnBothSides(from_edges[e])
    /\ AfterActivation(VIRUS_SPREAD) =>
          \A p \in SeqToSet(new_infected_ids) :
              \E e \in Edges : e.to_id = p /\ OpenOnBothSides(to_edges[e])

\* C19 witness: after a VirusSpread event an edge is available on both sides
\* and quarantined on one, next to an edge that is active
C19_Witness ==
    /\ AfterActivation(VIRUS_SPREAD)
    /\ \E e \in Edges :
          /\ to_edges[e].from_is_available /\ to_edges[e].to_is_available
          /\ to_edges[e].from_is_quarantined
    /\ \E e \in Edges : OpenOnBothSides(to_edges[e])

\* the list holds a command the parser did not recognise
HasNope(list) == \E i \in 1 .. Len(list) : ~has_is_deleted(list[i])

\* the list without its Nope commands
WithoutNope(list) == SelectSeq(list, has_is_deleted)

\* C20: a command of unknown kind is parsed into a Nope command, and a run whose
\* command list contains a Nope command does not abort: each tick's command
\* step goes on to the clock update, and leaves the quarantine flags of people
\* and edges as the same list without the Nope commands would leave them.
C20_NopeIsNoOp ==
    [][ (pc = "execute_commands" /\ HasNope(commands)) =>
            LET st == execute_commands(1,
                         [commands |-> WithoutNope(commands),
                          is_quarantined |-> is_quarantined,
                          to_edges |-> to_edges, from_edges |-> from_edges,
                          status |-> status, trace |-> trace, raised |-> FALSE,
                          zero_division |-> FALSE])
            IN /\ parse_command(Unknown_Dict) = Nope
               /\ pc' = "set_minutes"
               /\ HasNope(commands')
               /\ is_quarantined' = st.is_quarantined
               /\ to_edges' = st.to_edges
               /\ from_edges' = st.from_edges ]_vars

\* the first entry of a hook list whose evaluation divides by a zero counter:
\* it is not deleted and nothing before it is evaluated with a zero divisor
ZeroDivisor(condition) ==
    is_ratio_condition(condition) /\ statistics[condition.divisor] = 0

ZeroDivisorAt(list, i) ==
    /\ i \in 1 .. Len(list)
    /\ ~list[i].is_deleted
    /\ ZeroDivisor(list[i].condition)
    /\ \A j \in 1 .. (i - 1) :
          list[j].is_deleted \/ ~ZeroDivisor(list[j].condition)

\* C21: a Statistical_Ratio_Condition evaluated in a tick in which its divisor
\* counter is 0 raises an error that leaves the command and observer phase and
\* ends the run: the condition object answers nothing (it keeps its
\* max_satisfaction and can_be_satisfied, its owner is not marked deleted, fires
\* no observation and quarantines nobody), and no step follows the error.
C21_ZeroDivisorAborts ==
    [][ /\ \A i \in 1 .. Len(observers) :
              (pc = "execute_observers" /\ ZeroDivisorAt(observers, i)) =>
                  /\ pc' = "ZeroDivisionError"
                  /\ observers'[i] = observers[i]
        /\ \A i \in 1 .. Len(commands) :
              (pc = "execute_commands" /\ ZeroDivisorAt(commands, i)) =>
                  /\ pc' = "ZeroDivisionError"
                  /\ commands'[i] = commands[i]
                  /\ \A j \in i .. Len(commands) : commands'[j] = commands[j]
        /\ (pc = "ZeroDivisionError") => UNCHANGED vars ]_vars

\* the run has ended on the division, in a state where nobody is alive
C21_Witness ==
    /\ pc = "ZeroDivisionError"
    /\ statistics.ALIVE = 0
    /\ \E i \in 1 .. Len(commands) : ZeroDivisorAt(commands, i)

\* the hook at position i was invoked in the steps the trace gained
Invoked(name, i, before, after) ==
    \E k \in (Len(before) + 1) .. Len(after) :
        after[k].step = name /\ after[k].index = i

\* one tick's pass over a hook list, from the list before to the list after
DeletionRule(name, before, after, trace_before, trace_after) ==
    /\ Len(after) = Len(before)
    /\ \A i \in 1 .. Len(before) :
          /\ after[i].is_deleted =
                 (before[i].is_deleted \/ is_able_to_be_removed(after[i].condition))
          /\ before[i].is_deleted =>
                 /\ after[i] = before[i]
                 /\ ~Invoked(name, i, trace_before, trace_after)
          /\ ~before[i].is_deleted => Invoked(name, i, trace_before, trace_after)

CopiesIn(heap, e) == Cardinality({k \in 1 .. Len(heap) : heap[k] = e})

\* the events a step pushed: those the heap holds more copies of than the
\* heap left by the pop did
PushedBy(before, after) ==
    {e \in InHeap(after) : CopiesIn(after, e) > CopiesIn(heappop_rest(before), e)}

\* C23: a PlanDay event schedules Transition events only for persons alive and
\* not quarantined at the moment it fires, never into a sub-community closed at
\* that moment, and never into a community closed in every sub-community.
C23_PlansOnlyOpenPlaces ==
    [][ PoppedBy(PLAN_DAY) =>
          \A e \in PushedBy(events, events') :
              /\ e.type = TRANSITION
              /\ is_alive[e.person] /\ ~is_quarantined[e.person]
              /\ status[e.community][e.subcommunity_type_index]
              /\ \E index \in SubCommunities(e.community) :
                    status[e.community][index] ]_vars

\* a PlanDay event has just planned somebody into an open place while another
\* person is quarantined or dead and one of that person's places is closed
C23_Witness ==
    /\ AfterActivation(PLAN_DAY)
    /\ \E e \in InHeap(events) : e.type = TRANSITION /\ e.minute >= event.minute
    /\ \E p \in People : ~is_alive[p] \/ is_quarantined[p]
    /\ \E c \in Communities : \E index \in SubCommunities(c) :
          ~status[c][index] /\ people_ids_dict(c, index) # {}
    /\ \E c \in Communities :
          /\ \E index \in SubCommunities(c) : ~status[c][index]
          /\ \E index \in SubCommunities(c) : status[c][index]

\* the key (priority, end, end - start) of a before that of b, or equal to it
KeyBefore(a, b) ==
    LET ka == <<a.priority, a.end, a.end - a.start>>
        kb == <<b.priority, b.end, b.end - b.start>>
    IN \/ ka[1] < kb[1]
       \/ ka[1] = kb[1] /\ ka[2] < kb[2]
       \/ ka[1] = kb[1] /\ ka[2] = kb[2] /\ ka[3] < kb[3]
KeyEqual(a, b) ==
    a.priority = b.priority /\ a.end = b.end /\ a.end - a.start = b.end - b.start

\* the reference greedy over the candidates at the remaining positions of the
\* list: accept the one first in key order (the earlier position among equal
\* keys), drop what overlaps it, repeat
RECURSIVE Greedy(_, _)
Greedy(list, remaining) ==
    IF remaining = {} THEN <<>>
    ELSE LET first == CHOOSE i \in remaining :
                          \A j \in remaining :
                              \/ KeyBefore(list[i], list[j])
                              \/ KeyEqual(list[i], list[j]) /\ i <= j
         IN <<list[first]>> \o
            Greedy(list, {j \in remaining \ {first} :
                             ~check_overlap(list[first], list[j])})

\* C24: resolve_intervals returns exactly the reference greedy over the
\* candidates ordered by (priority, end, end - start); so every accepted
\* interval is a candidate, the first candidate of that order is accepted, and
\* every candidate overlaps an accepted interval not after it in that order
\* (itself, when it is accepted).
C24_ReferenceGreedy ==
    pc = "resolved" =>
        /\ accepted_intervals = Greedy(person_intervals, 1 .. Len(person_intervals))
        /\ \A a \in InHeap(accepted_intervals) : a \in InHeap(person_intervals)
        /\ person_intervals # <<>> =>
              \A c \in InHeap(person_intervals) :
                  KeyBefore(accepted_intervals[1], c)
                  \/ KeyEqual(accepted_intervals[1], c)
        /\ \A c \in InHeap(person_intervals) :
              c \notin InHeap(accepted_intervals) =>
                  \E a \in InHeap(accepted_intervals) :
                      /\ check_overlap(a, c)
                      /\ KeyBefore(a, c) \/ KeyEqual(a, c)

\* three candidates, two of them with equal keys at different places, one
\* rejected and two accepted
C24_Witness ==
    /\ pc = "resolved"
    /\ Len(person_intervals) = 3
    /\ Len(accepted_intervals) = 2
    /\ \E i, j \in 1 .. 3 :
          /\ i < j
          /\ person_intervals[i] # person_intervals[j]
          /\ KeyEqual(person_intervals[i], person_intervals[j])
    /\ \E c \in InHeap(person_intervals) : c \notin InHeap(accepted_intervals)

\* the closed intervals [start, end] of the two have a minute in common
Intersect(a, b) ==
    \E t \in 0 .. (MaxTime + 1) :
        a.start <= t /\ t <= a.end /\ b.start <= t /\ t <= b.end

\* C25: check_overlap is symmetric in its arguments and, for intervals with
\* start <= end, true exactly when the closed intervals [start, end] intersect;
\* intervals that only touch (one's end is the other's start) overlap.
C25_OverlapIsIntersection ==
    pc = "resolved" =>
        \A a, b \in InHeap(person_intervals) :
            /\ check_overlap(a, b) = check_overlap(b, a)
            /\ (a.start <= a.end /\ b.start <= b.end) =>
                  /\ check_overlap(a, b) = Intersect(a, b)
                  /\ a.end = b.start => check_overlap(a, b)

\* two candidates of positive length that only touch, the one that starts
\* later given first: one of them was dropped
C25_Witness ==
    /\ pc = "resolved"
    /\ Len(person_intervals) = 2
    /\ Len(accepted_intervals) = 1
    /\ person_intervals[2].start < person_intervals[2].end
    /\ person_intervals[2].end = person_intervals[1].start
    /\ person_intervals[1].start < person_intervals[1].end

\* e is the start (end) transition of the interval
IsTransitionOf(e, interval, is_start) ==
    /\ e.type = TRANSITION
    /\ e.minute = (IF is_start THEN interval.start ELSE interval.end)
    /\ e.person = interval.person
    /\ e.community = interval.community
    /\ e.subcommunity_type_index = interval.subcommunity_type_index
    /\ e.is_start = is_start

\* how many of the accepted intervals e is the start (end) transition of
TransitionsDue(e, accepted) ==
    Cardinality({i \in 1 .. Len(accepted) : IsTransitionOf(e, accepted[i], TRUE)})
    + Cardinality({i \in 1 .. Len(accepted) : IsTransitionOf(e, accepted[i], FALSE)})

\* C26: for every interval a PlanDay event accepts exactly two Transition
\* events are pushed, a start transition at the interval's start minute and an
\* end transition at its end minute, both with the interval's person, community
\* and sub-community index; nothing is pushed for a rejected candidate.
C26_TwoTransitionsPerInterval ==
    [][ PoppedBy(PLAN_DAY) =>
          \E ch \in PlanChoices :
              LET accepted == planned_intervals(ch)
                  rest == heappop_rest(events)
              IN /\ Len(events') = Len(rest) + 2 * Len(accepted)
                 /\ \A e \in InHeap(events') \cup InHeap(rest) :
                       CopiesIn(events', e) - CopiesIn(rest, e)
                           = TransitionsDue(e, accepted)
                 /\ \A i \in 1 .. Len(accepted) :
                       /\ \E e \in InHeap(events') :
                             IsTransitionOf(e, accepted[i], TRUE)
                       /\ \E e \in InHeap(events') :
                             IsTransitionOf(e, accepted[i], FALSE) ]_vars

\* the first PlanDay event has planned person 0, who is a member of two
\* communities with overlapping hours: one interval accepted (its start and
\* end transition are in the heap), the other rejected
C26_Witness ==
    /\ AfterActivation(PLAN_DAY)
    /\ event.minute = 0
    /\ CountEvents(events, TRANSITION, 0) = 2
    /\ \E e1, e2 \in InHeap(events) :
          /\ e1.type = TRANSITION /\ e1.person = 0 /\ e1.is_start
          /\ e2.type = TRANSITION /\ e2.person = 0 /\ ~e2.is_start
          /\ e1.community = e2.community /\ e1.minute < e2.minute

\* C27: activating a Transition event changes only the target person's current
\* location, to the event's community and sub-community if is_start and to the
\* family otherwise; health status, alive and quarantine flags, edge flags and
\* statistics stay, the heap only loses the popped event, and the move is made
\* also when the person is dead or quarantined.
C27_TransitionMovesOnly ==
    [][ PoppedBy(TRANSITION) =>
          /\ \A p \in People :
                IF p = event'.person
                THEN /\ current_location'[p].is_family = ~event'.is_start
                     /\ event'.is_start =>
                           /\ current_location'[p].community = event'.community
                           /\ current_location'[p].subcommunity_type_index
                                  = event'.subcommunity_type_index
                ELSE current_location'[p] = current_location[p]
          /\ UNCHANGED <<infection_status, is_alive, is_quarantined,
                         times_of_infection, transmission_ids, to_edges,
                         from_edges, status, statistics, commands, observers>>
          /\ Len(events') = Len(events) - 1
          /\ \A e \in InHeap(events) :
                CopiesIn(events', e) =
                    CopiesIn(events, e) - (IF e = event' THEN 1 ELSE 0) ]_vars

\* a start transition has just moved a dead person into a community, and
\* another person is quarantined and away from the family
C27_Witness ==
    /\ AfterActivation(TRANSITION)
    /\ event.is_start
    /\ ~is_alive[event.person]
    /\ ~current_location[event.person].is_family
    /\ current_location[event.person].community = event.community
    /\ \E p \in People : is_quarantined[p] /\ ~current_location[p].is_family

\* C28: activating an Infection event sets the person Clean and moves one unit
\* from IS_INFECTED to IS_NOT_INFECTED; if the death coin succeeds it also sets
\* alive to false and moves one unit from ALIVE to DEAD; either way the
\* person's cached infectious-rate and immunity samples are gone afterwards
\* (other people's stay) and no event is pushed.
C28_InfectionEnds ==
    [][ PoppedBy(INFECTION) =>
          LET p == event'.person
              survived == /\ is_alive' = is_alive
                          /\ statistics'.ALIVE = statistics.ALIVE
                          /\ statistics'.DEAD = statistics.DEAD
              died == /\ is_alive' = [is_alive EXCEPT ![p] = FALSE]
                      /\ statistics'.ALIVE = statistics.ALIVE - 1
                      /\ statistics'.DEAD = statistics.DEAD + 1
          IN /\ infection_status' = [infection_status EXCEPT ![p] = CLEAN]
             /\ statistics'.IS_INFECTED = statistics.IS_INFECTED - 1
             /\ statistics'.IS_NOT_INFECTED = statistics.IS_NOT_INFECTED + 1
             /\ survived \/ died
             /\ will_die_probability(event') >= 100 => died
             /\ will_die_probability(event') <= 0 => survived
             /\ statistics'.HAS_BEEN_INFECTED = statistics.HAS_BEEN_INFECTED
             /\ p \notin DOMAIN infectious_rate_dict'
             /\ p \notin DOMAIN immunity_dict'
             /\ \A q \in People \ {p} :
                   /\ q \in DOMAIN infectious_rate_dict' <=>
                          q \in DOMAIN infectious_rate_dict
                   /\ q \in DOMAIN immunity_dict' <=> q \in DOMAIN immunity_dict
             /\ Len(events') = Len(events) - 1
             /\ \A e \in InHeap(events') : CopiesIn(events', e) <= CopiesIn(events, e)
        ]_vars

\* the Infection event of a person who caught the disease from somebody (so
\* both samples were cached) has just fired and the person died: the samples
\* are gone, while the person who transmitted still has a cached rate
C28_Witness ==
    /\ AfterActivation(INFECTION)
    /\ ~is_alive[event.person]
    /\ times_of_infection[event.person] = 1
    /\ infection_status[event.person] = CLEAN
    /\ \E q \in People :
          /\ \E k \in 1 .. Len(transmission_ids[q]) :
                transmission_ids[q][k] = event.person
          /\ q \in DOMAIN infectious_rate_dict
    /\ event.person \notin DOMAIN infectious_rate_dict
    /\ event.person \notin DOMAIN immunity_dict
    /\ statistics.DEAD >= 1

\* C29: once a person's alive flag is false it stays false, and from then on
\* the person's status stays Clean, their times_of_infection never changes and
\* they transmit to nobody, whatever events still fire for them.
C29_DeadStaysDead ==
    [][ \A p \in People :
          ~is_alive[p] =>
              /\ ~is_alive'[p]
              /\ infection_status'[p] = CLEAN
              /\ times_of_infection'[p] = times_of_infection[p]
              /\ transmission_ids'[p] = transmission_ids[p] ]_vars

\* the events the heap holds more copies of after the step than before
Gained(before, after) ==
    {e \in InHeap(after) : CopiesIn(after, e) > CopiesIn(before, e)}

\* C30: the activation of an episode's Incubation event sets the person
\* Contagious and pushes exactly one Infection event, at the minute fixed at
\* the episode's creation: the incubation end plus the sampled disease period;
\* no other step pushes an Infection event, so with non-negative periods an
\* episode's Incubation event is activated before its Infection event, and the
\* Infection event is never due before the Incubation event, also when the
\* disease period is 0.
C30_IncubationThenInfection ==
    [][ /\ PoppedBy(INCUBATION) =>
              /\ infection_status'[event'.person] = CONTAGIOUS
              /\ Len(events') = Len(events)
              /\ \E e \in Gained(events, events') :
                    /\ Gained(events, events') = {e}
                    /\ CopiesIn(events', e) = CopiesIn(events, e) + 1
                    /\ e.type = INFECTION
                    /\ e.person = event'.person
                    /\ e.minute = event'.ending_time_transmission
                    /\ e.minute >= event'.minute
                    /\ (e.minute - event'.minute) \in disease.disease_periods
        /\ ~PoppedBy(INCUBATION) =>
              \A e \in Gained(events, events') : e.type # INFECTION
        /\ \A e \in InHeap(events') :
              e.type = INCUBATION => e.ending_time_transmission >= e.minute ]_vars

\* an Incubation event of an episode with disease period 0 has just fired: the
\* person is Contagious and the Infection event waits in the heap at the same
\* minute, while an episode with a longer incubation is still to come
C30_Witness ==
    /\ AfterActivation(INCUBATION)
    /\ infection_status[event.person] = CONTAGIOUS
    /\ \E e \in InHeap(events) :
          /\ e.type = INFECTION /\ e.person = event.person
          /\ e.minute = event.minute
    /\ \E e \in InHeap(events) : e.type = INCUBATION /\ e.minute > event.minute

\* one Time_Point_Condition object across a step that evaluates it with the
\* clock at clk: it reports satisfied in the step exactly when its flag rises
TimePointRule(before, after, clk) ==
    /\ after.deadline = before.deadline
    /\ before.satisfied => after.satisfied
    /\ (~before.satisfied /\ after.satisfied) => before.deadline < clk
    /\ (~before.satisfied /\ before.deadline >= clk) => ~after.satisfied
    /\ after.satisfied => is_able_to_be_removed(after)

\* C31: a Time_Point_Condition reports satisfied at most once in a run, and only
\* in a tick in which the clock it reads is strictly greater than its deadline
\* (a clock equal to the deadline does not fire it); from that tick on it is
\* removable and never reports satisfied again.  An observer counts the reports
\* of its condition in observation_id.
C31_TimePointFiresOnce ==
    [][ /\ \A i \in 1 .. Len(observers) :
              ~is_ratio_condition(observers[i].condition) =>
                  /\ TimePointRule(observers[i].condition,
                                   observers'[i].condition, clock)
                  /\ observers'[i].observation_id =
                         observers[i].observation_id +
                         (IF /\ ~observers[i].condition.satisfied
                             /\ observers'[i].condition.satisfied
                          THEN 1 ELSE 0)
                  /\ observers'[i].observation_id <= 1
                  /\ (observers'[i].observation_id = 1) =
                         observers'[i].condition.satisfied
        /\ \A i \in 1 .. Len(commands) :
              ~is_ratio_condition(commands[i].condition) =>
                  /\ TimePointRule(commands[i].condition,
                                   commands'[i].condition, clock)
                  /\ ("id" \in DOMAIN commands[i] /\ ~is_quarantined[commands[i].id]
                        /\ is_quarantined'[commands[i].id]) =>
                         /\ ~commands[i].condition.satisfied
                         /\ commands[i].condition.deadline < clock ]_vars

\* a tick past both deadlines: the observer waiting for minute 0 reported once
\* in an earlier tick and is passed over, the command waiting for minute 300
\* reports in this tick
C31_Witness ==
    /\ pc = "set_minutes"
    /\ Len(commands) = 2 /\ Len(observers) = 2
    /\ observers[1].condition.satisfied /\ observers[1].observation_id = 1
    /\ ~Invoked("observe", 1, <<>>, trace)
    /\ commands[2].condition.deadline = 300
    /\ commands[2].condition.satisfied
    /\ Invoked("take_action", 2, <<>>, trace)
    /\ clock > 300

\* the comparison of a ratio condition on the counters of the current state
RatioHolds(condition) ==
    compare(100 * statistics[condition.dividend],
            condition.target_ratio * statistics[condition.divisor],
            condition.comparison_type)

\* one Statistical_Ratio_Condition object across a step: a report takes one
\* from the remaining count, needs the condition armed and the comparison true
\* and disarms it; only an evaluation with the comparison false arms it again
RatioRule(before, after) ==
    /\ after.max_satisfaction \in {before.max_satisfaction,
                                   before.max_satisfaction - 1}
    /\ after.max_satisfaction >= 0
    /\ (after.max_satisfaction # before.max_satisfaction) =>
          /\ before.can_be_satisfied
          /\ RatioHolds(before)
          /\ ~after.can_be_satisfied
    /\ (~before.can_be_satisfied /\ after.can_be_satisfied) => ~RatioHolds(before)

\* the hook lists the run was built with
BuiltWith(list, lists) ==
    \E built \in lists :
        /\ Len(built) = Len(list)
        /\ \A i \in 1 .. Len(list) :
              /\ list[i].condition.max_satisfaction \in
                     0 .. built[i].condition.max_satisfaction
              /\ "observation_id" \in DOMAIN list[i] =>
                     list[i].observation_id + list[i].condition.max_satisfaction
                         = built[i].condition.max_satisfaction

\* C32: a Statistical_Ratio_Condition built with max_satisfaction = n >= 0
\* reports satisfied at most n times in a run (an observer's observation_id plus
\* the remaining count is n, and the remaining count never goes below 0);
\* between two reports there is an evaluation in which the comparison was false
\* (a report disarms the condition and only a false comparison arms it again);
\* it is removable, and its owner is marked deleted by the pass that evaluates
\* it, exactly when the remaining count is 0.
C32_RatioFiresAtMostN ==
    [][ /\ BuiltWith(observers', RearmObserverLists)
        /\ BuiltWith(commands', RearmCommandLists)
        /\ \A i \in 1 .. Len(observers) :
              /\ RatioRule(observers[i].condition, observers'[i].condition)
              /\ is_able_to_be_removed(observers'[i].condition) =
                     (observers'[i].condition.max_satisfaction = 0)
              /\ (pc = "execute_observers") =>
                     observers'[i].is_deleted =
                         (observers'[i].condition.max_satisfaction = 0)
        /\ \A i \in 1 .. Len(commands) :
              /\ RatioRule(commands[i].condition, commands'[i].condition)
              /\ (pc = "execute_commands") =>
                     commands'[i].is_deleted =
                         (commands'[i].condition.max_satisfaction = 0)
              /\ (~is_quarantined[commands[i].id] /\ is_quarantined'[commands[i].id]) =>
                     commands'[i].condition.max_satisfaction =
                         commands[i].condition.max_satisfaction - 1 ]_vars

\* the observer built with n = 2 has reported twice and is deleted, in a tick
\* in which the share of infected people is back under the target
C32_Witness ==
    /\ pc = "execute_commands"
    /\ observers[1].observation_id = 2
    /\ observers[1].condition.max_satisfaction = 0
    /\ observers[1].is_deleted
    /\ Invoked("observe", 1, <<>>, trace)
    /\ statistics.HAS_BEEN_INFECTED >= 2

\* C33: every event pushed while an event with minute m is being activated has
\* a minute >= m: a PlanDay event schedules its Transition events, and a
\* VirusSpread event the Incubation events of the people it infects, at or after
\* its own minute, so no event is scheduled in the past of the event that
\* creates it.
C33_NoEventInThePast ==
    [][ (pc = "loop" /\ pc' = "execute_observers") =>
            \A e \in PushedBy(events, events') : e.minute >= event'.minute ]_vars

\* C34: in a run that starts from a freshly generated population with distinct
\* initial infected ids, the counters agree with the people in every state:
\* IS_INFECTED is the number of persons whose status is not Clean, DEAD the
\* number of persons with is_alive false, HAS_BEEN_INFECTED the number of
\* persons with times_of_infection >= 1.
C34_CountersAgreeWithPeople ==
    Distinct(initialized_infected_ids) =>
        /\ statistics.IS_INFECTED =
               Cardinality({p \in People : infection_status[p] # CLEAN})
        /\ statistics.DEAD = Cardinality({p \in People : ~is_alive[p]})
        /\ statistics.HAS_BEEN_INFECTED =
               Cardinality({p \in People : times_of_infection[p] >= 1})

\* a state with a dead person, a person in a second infection and a person
\* never infected or recovered
C34_Witness ==
    /\ Distinct(initialized_infected_ids)
    /\ \E p, q, r \in People :
          /\ ~is_alive[p]
          /\ times_of_infection[q] = 2 /\ infection_status[q] # CLEAN
          /\ infection_status[r] = CLEAN /\ is_alive[r]
    /\ statistics.DEAD >= 1 /\ statistics.IS_INFECTED >= 1

\* C35: in a run with distinct initial infected ids each person has at most
\* one infection episode in flight: the heap holds exactly one Incubation event
\* for the person iff their status is Incubating, exactly one Infection event
\* for them iff their status is Contagious, and no Incubation or Infection
\* event for them iff their status is Clean.
C35_OneEpisodeInFlight ==
    Distinct(initialized_infected_ids) =>
        \A p \in People :
            /\ CountEvents(events, INCUBATION, p) + CountEvents(events, INFECTION, p) <= 1
            /\ (CountEvents(events, INCUBATION, p) = 1) =
                   (infection_status[p] = INCUBATION_STATUS)
            /\ (CountEvents(events, INFECTION, p) = 1) =
                   (infection_status[p] = CONTAGIOUS)
            /\ (/\ CountEvents(events, INCUBATION, p) = 0
                /\ CountEvents(events, INFECTION, p) = 0) =
                   (infection_status[p] = CLEAN)

\* the three cases at once, one of them a second episode: a person Incubating
\* for the second time, a Contagious person and a Clean person who has
\* recovered from an episode
C35_Witness ==
    /\ Distinct(initialized_infected_ids)
    /\ \E p, q, r \in People :
          /\ infection_status[p] = INCUBATION_STATUS /\ times_of_infection[p] = 2
          /\ CountEvents(events, INCUBATION, p) = 1
          /\ infection_status[q] = CONTAGIOUS
          /\ CountEvents(events, INFECTION, q) = 1
          /\ infection_status[r] = CLEAN /\ times_of_infection[r] >= 1

\* the sum of f over the persons 0 .. n - 1
RECURSIVE SumOver(_, _)
SumOver(f, n) == IF n = 0 THEN 0 ELSE f[n - 1] + SumOver(f, n - 1)

\* C36: at any time the total number of entries over all persons'
\* transmission_ids lists equals the number of infection episodes started by
\* VirusSpread events, the sum of times_of_infection minus the number of
\* initially infected people: every recorded transmission corresponds to
\* exactly one infection.
C36_TransmissionsMatchEpisodes ==
    (pc # "initialize_simulation") =>
        SumOver([p \in People |-> Len(transmission_ids[p])], NumPeople) =
            SumOver(times_of_infection, NumPeople) - Len(initialized_infected_ids)

\* the other Transition event of the interval of Transition e is not in the
\* heap: no event of the same person and place with the opposite is_start that
\* is due on the right side of e (both events of an interval are pushed
\* together, so the other one has been activated)
IntervalDone(e, heap) ==
    ~\E k \in 1 .. Len(heap) :
        /\ heap[k].type = TRANSITION
        /\ heap[k].person = e.person
        /\ heap[k].community = e.community
        /\ heap[k].subcommunity_type_index = e.subcommunity_type_index
        /\ heap[k].is_start = ~e.is_start
        /\ IF e.is_start THEN heap[k].minute >= e.minute
           ELSE heap[k].minute <= e.minute

\* C37: for every accepted interval of a person, once both of its Transition
\* events have been activated and no other Transition of that person has been
\* activated after them, the person's location is the family; this holds also
\* for a zero-length interval, whose start and end transitions carry the same
\* minute and the same priority.
C37_HomeAfterInterval ==
    [][ (PoppedBy(TRANSITION) /\ IntervalDone(event', events'))
            => current_location'[event'.person] = AtFamily ]_vars

\* C38: a command guarded by a Time_Point_Condition whose deadline is strictly
\* before end_time is executed in every run: when the main loop has ended, its
\* condition has reported satisfied in some tick.
C38_DeadlineBeforeEndFires ==
    (pc = "completed") =>
        \A i \in 1 .. Len(commands) :
            (/\ "condition" \in DOMAIN commands[i]
             /\ ~is_ratio_condition(commands[i].condition)
             /\ commands[i].condition.deadline < end_time)
                => commands[i].condition.satisfied

\* C39: every VirusSpread event seeded at initialization is activated before
\* the run completes, including the one at minute end_time when end_time is a
\* multiple of the spread period, so the number of VirusSpread activations
\* equals the number of seeded VirusSpread events.  VirusSpread events are
\* pushed at initialization only and an event popped is activated, so this is:
\* a completed run leaves no VirusSpread event in the heap.
C39_AllVirusSpreadsActivated ==
    (pc = "completed") => CountKind(events, VIRUS_SPREAD) = 0

====
